---------------------------- MODULE Spec2Model ----------------------------
(***************************************************************************)
(* A model of the ALM risk engine (alm_calculator): the factor analyzer,  *)
(* the scenario calculator and its aggregator, the deposit elasticity      *)
(* calculator, the dynamic balance IRR calculator, the behavioral          *)
(* assumptions manager and the instruments' risk contributions.            *)
(*                                                                         *)
(* Every component is a state machine over its own variables; the other    *)
(* components' variables stay parked at their initial values.  Amounts are *)
(* integers; fractions are carried exactly over a stated denominator.      *)
(* Python numbers keep their type (int, float, Decimal) wherever the code  *)
(* mixes them, because float and Decimal do not combine.                   *)
(***************************************************************************)
EXTENDS Integers, Sequences, FiniteSets, TLC

VARIABLES
    \* FactorAnalyzer
    base_date, comparison_date, base_instruments, comparison_instruments,
    metric_calculator, analysis_results, fa_pc,
    \* ScenarioCalculator._aggregate_risks on two disjoint contribution sets
    contributions_A, contributions_B, aggregation_date, aggregates,
    \* DepositElasticityCalculator
    elasticity_params, deposits, rate_shocks, volume_changes, elast_pc,
    \* DynamicBalanceIRRCalculator
    dyn_elasticity_params, dyn_instruments, dyn_rate_shocks, book_filter,
    dynamic_irr, dyn_pc,
    \* ScenarioCalculator: the object heap, the instruments held, the copies
    \* and results of the last operation
    heap, scen_instruments, stressed_instruments, scenarios_run,
    scenario_results, scen_calls,
    \* BehavioralAssumptionsManager, and the argument and the outcome of the
    \* last call
    rules, counterparty_assumptions, instrument_data, resolution,
    \* The instrument and the outcome of the last call of
    \* calculate_risk_contribution
    contrib_instrument, contrib_outcome,
    \* The dates and the result of the last call of assign_to_bucket
    bucket_base_date, bucket_target_date, assigned_bucket,
    \* CurrencyInterestRateGapCalculator: the instruments and the tables of the last call of calculate
    gap_instruments, gap_tables,
    \* SurvivalHorizonCalculator: the arguments and the result of the last call
    horizon_call, horizon_result,
    \* DepositElasticityCalculator called with several shocks on one deposit
    response_params, response_deposit, response_calls,
    \* DepositElasticityCalculator.create_dynamic_balance_sheet on deposit objects
    sheet_params, sheet_heap, sheet_deposits, sheet_result,
    \* FactorAnalyzer._age_instruments on instrument objects
    aging_heap, aging_base, aging_comparison_ids, aging_date, aging_aged, aging_pc,
    \* DepositElasticityCalculator._determine_deposit_type on one deposit
    classified_deposit, classified_as,
    \* BaseInstrument.get_book on one instrument
    book_instrument, book_reported,
    \* InstrumentFactory._determine_instrument_type on one row
    account_to_type, balance_row, determined_type,
    \* BehavioralAssumptionsManager with its dicts as objects, and the maps it returned
    assumption_dicts, rate_dicts, stored_rule, stored_counterparty, returned_maps, edits, last_step

factorVars == <<base_date, comparison_date, base_instruments,
                comparison_instruments, metric_calculator, analysis_results,
                fa_pc>>

aggVars == <<contributions_A, contributions_B, aggregation_date, aggregates>>

elastVars == <<elasticity_params, deposits, rate_shocks, volume_changes,
               elast_pc>>

dynVars == <<dyn_elasticity_params, dyn_instruments, dyn_rate_shocks, book_filter,
             dynamic_irr, dyn_pc>>

scenVars == <<heap, scen_instruments, stressed_instruments, scenarios_run,
              scenario_results, scen_calls>>

resolverVars == <<rules, counterparty_assumptions, instrument_data, resolution>>

contribVars == <<contrib_instrument, contrib_outcome>>

bucketVars == <<bucket_base_date, bucket_target_date, assigned_bucket>>

gapVars == <<gap_instruments, gap_tables>>

horizonVars == <<horizon_call, horizon_result>>

responseVars == <<response_params, response_deposit, response_calls>>

sheetVars == <<sheet_params, sheet_heap, sheet_deposits, sheet_result>>

agingVars == <<aging_heap, aging_base, aging_comparison_ids, aging_date, aging_aged, aging_pc>>

classifyVars == <<classified_deposit, classified_as>>

bookVars == <<book_instrument, book_reported>>

typeVars == <<account_to_type, balance_row, determined_type>>

sharedVars == <<assumption_dicts, rate_dicts, stored_rule, stored_counterparty, returned_maps, edits, last_step>>

vars == <<factorVars, aggVars, elastVars, dynVars, scenVars, resolverVars,
          contribVars,
          bucketVars,
          gapVars,
          horizonVars,
          responseVars,
          sheetVars,
          agingVars,
          classifyVars,
          bookVars,
          typeVars,
          sharedVars>>

---------------------------------------------------------------------------
(* Bounds of the model *)

MaxPortfolio == 2
MaxDays == 2
MaxDeposits == 2
MaxInstruments == 2
MaxHeld == 2
MaxCalls == 3
MaxRules == 2
MaxCounterparties == 1
MaxBaseDate == 4
MaxGapInstruments == 3
MaxHorizonInstruments == 2
MaxFlowDays == 3
MaxResponseCalls == 2
MaxPatterns == 2
MaxReturned == 2
MaxEdits == 2

---------------------------------------------------------------------------
(* Python numbers: a value and the type that carries it *)

NumKinds == {"int", "float", "decimal"}

Num(k, v) == [k |-> k, v |-> v]

NoneVal == [k |-> "None", v |-> 0]

TypeError == [k |-> "TypeError", v |-> 0]

IsNum(x) == x.k \in NumKinds

\* The type of the result of a binary arithmetic operator on two numbers.
ResultKind(a, b) ==
    IF "decimal" \in {a.k, b.k} THEN "decimal"
    ELSE IF "float" \in {a.k, b.k} THEN "float"
    ELSE "int"

\* float and Decimal operands raise TypeError; int combines with both.
Combines(a, b) ==
    /\ IsNum(a)
    /\ IsNum(b)
    /\ {a.k, b.k} # {"float", "decimal"}

PySub(a, b) ==
    IF Combines(a, b) THEN Num(ResultKind(a, b), a.v - b.v) ELSE TypeError

PyAdd(a, b) ==
    IF Combines(a, b) THEN Num(ResultKind(a, b), a.v + b.v) ELSE TypeError

RECURSIVE SeqSum(_)
SeqSum(s) == IF s = <<>> THEN 0 ELSE Head(s) + SeqSum(Tail(s))

Range(s) == {s[i] : i \in DOMAIN s}

---------------------------------------------------------------------------
(* FactorAnalyzer *)

Currencies == {"RUB", "USD"}

InstrumentIds == {"LOAN_001", "DEPO_001", "LOAN_003"}

CurrencyOf(id) == IF id = "LOAN_003" THEN "USD" ELSE "RUB"

MaturityOf(id) == IF id = "DEPO_001" THEN 1 ELSE 3

FactorAmounts == {-8, 3, 10}

\* A BaseInstrument, with the fields the analyzer and the metrics read.
Instrument(id, amt, asof) ==
    [instrument_id |-> id, amount |-> amt, currency |-> CurrencyOf(id),
     as_of_date |-> asof, maturity_date |-> MaturityOf(id)]

InstrumentPool(asof) ==
    {Instrument(id, amt, asof) : id \in InstrumentIds, amt \in FactorAmounts}

\* Portfolios: lists of instruments with pairwise distinct instrument_id.
Portfolios(asof) ==
    {p \in UNION {[1..n -> InstrumentPool(asof)] : n \in 0..MaxPortfolio} :
        \A i, j \in DOMAIN p : i # j => p[i].instrument_id # p[j].instrument_id}

EmptyMap == [c \in {} |-> NoneVal]

MNum(n) == [t |-> "num", n |-> n, m |-> EmptyMap]

MMap(f) == [t |-> "map", n |-> NoneVal, m |-> f]

MNone == [t |-> "None", n |-> NoneVal, m |-> EmptyMap]

MRaise == [t |-> "TypeError", n |-> NoneVal, m |-> EmptyMap]

\* The metric functions the callers pass: a sum of amounts, the amounts by
\* currency, and a count of assets; the sums are float (the amounts' type) or
\* Decimal (the type the callers annotate and the examples accumulate in).
MetricCalculators ==
    {[shape |-> "sum", kind |-> "float"],
     [shape |-> "sum", kind |-> "decimal"],
     [shape |-> "by_currency", kind |-> "float"],
     [shape |-> "by_currency", kind |-> "decimal"],
     [shape |-> "asset_count", kind |-> "int"]}

AmountsIn(instruments, ccys) ==
    [i \in DOMAIN instruments |->
        IF instruments[i].currency \in ccys THEN instruments[i].amount ELSE 0]

\* sum() over an empty list is the int 0 in Python; a Decimal accumulator
\* starts at Decimal(0).
SumOfAmounts(kind, instruments, ccys) ==
    IF kind = "float" /\ instruments = <<>>
    THEN Num("int", 0)
    ELSE Num(kind, SeqSum(AmountsIn(instruments, ccys)))

MetricValue(metric, instruments, calc_date) ==
    CASE metric.shape = "sum" ->
            MNum(SumOfAmounts(metric.kind, instruments, Currencies))
      [] metric.shape = "by_currency" ->
            MMap([c \in {instruments[i].currency : i \in DOMAIN instruments} |->
                    Num(metric.kind, SeqSum(AmountsIn(instruments, {c})))])
      [] metric.shape = "asset_count" ->
            MNum(Num("int", Cardinality({i \in DOMAIN instruments :
                                            instruments[i].amount > 0})))

\* _age_instruments: a copy of each instrument whose id is in existing_ids,
\* with as_of_date moved to comparison_date; nothing else changes.
RECURSIVE _age_instruments(_, _, _)
_age_instruments(instruments, existing_ids, cdate) ==
    IF instruments = <<>> THEN <<>>
    ELSE LET inst == Head(instruments)
             rest == _age_instruments(Tail(instruments), existing_ids, cdate)
         IN IF inst.instrument_id \notin existing_ids
            THEN rest
            ELSE <<[inst EXCEPT !.as_of_date = cdate]>> \o rest

\* isinstance(metric_new, (int, float, np.number)): Decimal is not among them.
IsIntOrFloat(x) == x.k \in {"int", "float"}

\* _calculate_delta on two scalars (the leaves of a mapping metric).
DeltaScalar(val_new, val_old) ==
    IF IsIntOrFloat(val_new) THEN PySub(val_new, val_old) ELSE NoneVal

MapGet(f, key) == IF key \in DOMAIN f THEN f[key] ELSE Num("int", 0)

_calculate_delta(metric_new, metric_old) ==
    IF metric_new.t = "num" /\ IsIntOrFloat(metric_new.n)
    THEN IF metric_old.t = "num" /\ PySub(metric_new.n, metric_old.n) # TypeError
         THEN MNum(PySub(metric_new.n, metric_old.n))
         ELSE MRaise
    ELSE IF metric_new.t = "map" /\ metric_old.t = "map"
    THEN LET all_keys == DOMAIN metric_new.m \cup DOMAIN metric_old.m
             delta == [key \in all_keys |->
                          DeltaScalar(MapGet(metric_new.m, key),
                                      MapGet(metric_old.m, key))]
         IN IF \E key \in all_keys : delta[key] = TypeError
            THEN MRaise
            ELSE MMap(delta)
    ELSE MNone

IdsOf(instruments) == {instruments[i].instrument_id : i \in DOMAIN instruments}

NoResults ==
    [metric_base |-> MNone, metric_aged |-> MNone, metric_full |-> MNone,
     total_change |-> MNone, aging_effect |-> MNone, new_deals_effect |-> MNone,
     aged_instruments |-> <<>>, existing_products_count |-> 0,
     new_products_count |-> 0]

\* FactorAnalyzer.analyze
analyze(base, comparison, metric) ==
    LET base_ids == IdsOf(base)
        comparison_ids == IdsOf(comparison)
        existing_ids == base_ids \cap comparison_ids
        new_ids == comparison_ids \ base_ids
        aged == _age_instruments(base, existing_ids, comparison_date)
        metric_base == MetricValue(metric, base, base_date)
        metric_aged == MetricValue(metric, aged, comparison_date)
        metric_full == MetricValue(metric, comparison, comparison_date)
    IN [metric_base |-> metric_base,
        metric_aged |-> metric_aged,
        metric_full |-> metric_full,
        total_change |-> _calculate_delta(metric_full, metric_base),
        aging_effect |-> _calculate_delta(metric_aged, metric_base),
        new_deals_effect |-> _calculate_delta(metric_full, metric_aged),
        aged_instruments |-> aged,
        existing_products_count |-> Cardinality(existing_ids),
        new_products_count |-> Cardinality(new_ids)]

Raised(results) ==
    MRaise \in {results.total_change, results.aging_effect,
                results.new_deals_effect}

\* FactorAnalyzer.__init__: comparison_date must be after base_date.
FactorInit ==
    /\ base_date = 0
    /\ comparison_date \in 1..MaxDays
    /\ base_instruments = <<>>
    /\ comparison_instruments = <<>>
    /\ metric_calculator = [shape |-> "sum", kind |-> "float"]
    /\ analysis_results = NoResults
    /\ fa_pc = "constructed"

Analyze ==
    /\ fa_pc = "constructed"
    /\ \E base \in Portfolios(base_date),
          comparison \in Portfolios(comparison_date),
          metric \in MetricCalculators :
        /\ base_instruments' = base
        /\ comparison_instruments' = comparison
        /\ metric_calculator' = metric
        /\ analysis_results' = analyze(base, comparison, metric)
        /\ fa_pc' = IF Raised(analyze(base, comparison, metric))
                    THEN "raised" ELSE "returned"
    /\ UNCHANGED <<base_date, comparison_date>>

FactorNext == Analyze

---------------------------------------------------------------------------
(* ScenarioCalculator._aggregate_risks *)

\* An optional value is a sequence of length at most one: <<>> is None.
None == <<>>

Some(x) == <<x>>

\* The truth value Python gives an Optional number: None and 0 are false.
Truthy(opt) == opt # None /\ opt[1] # 0

bucket_order ==
    <<"overnight", "2-7d", "8-14d", "15-30d", "30-90d", "90-180d",
      "180-365d", "1-2y", "2y+">>

bucket_days_mapping(bucket) ==
    CASE bucket = "overnight" -> 1
      [] bucket = "2-7d" -> 7
      [] bucket = "8-14d" -> 14
      [] bucket = "15-30d" -> 30
      [] bucket = "30-90d" -> 90
      [] bucket = "90-180d" -> 180
      [] bucket = "180-365d" -> 365
      [] bucket = "1-2y" -> 730
      [] bucket = "2y+" -> 1095
      [] OTHER -> 0

_assign_to_irr_bucket(calculation_date, repricing_date) ==
    LET days_to_repricing == repricing_date - calculation_date
    IN IF days_to_repricing <= 30 THEN "0-1m"
       ELSE IF days_to_repricing <= 90 THEN "1-3m"
       ELSE IF days_to_repricing <= 180 THEN "3-6m"
       ELSE IF days_to_repricing <= 365 THEN "6-12m"
       ELSE IF days_to_repricing <= 730 THEN "1-2y"
       ELSE IF days_to_repricing <= 1095 THEN "2-3y"
       ELSE IF days_to_repricing <= 1825 THEN "3-5y"
       ELSE IF days_to_repricing <= 2555 THEN "5-7y"
       ELSE IF days_to_repricing <= 3650 THEN "7-10y"
       ELSE "10y+"

\* A RiskContribution.  kind is the Python type of its amounts: float as the
\* class declares them, Decimal where an instrument stores Decimals.  The
\* currency_exposure dict keeps its insertion order.
Contribution(id, kind, ramt, rdate, dur, dv01, cfs, exposure) ==
    [instrument_id |-> id, kind |-> kind, repricing_amount |-> ramt,
     repricing_date |-> rdate, duration |-> dur, dv01 |-> dv01,
     cash_flows |-> cfs, currency_exposure |-> exposure]

Leg(ccy, val) == [currency |-> ccy, exposure |-> val]

ContributionShapes(kind) ==
    <<Contribution("c1", kind, 5, Some(20), Some(2), Some(1),
                   [b \in {"overnight", "30-90d"} |->
                       IF b = "overnight" THEN 5 ELSE -7],
                   <<Leg("RUB", 5)>>),
      Contribution("c2", kind, -4, Some(60), None, None,
                   [b \in {"30-90d"} |-> -4],
                   <<Leg("RUB", -4)>>),
      Contribution("c3", kind, 0, Some(20), None, None,
                   [b \in {"overnight"} |-> 3],
                   <<Leg("USD", 3), Leg("RUB", -3)>>),
      Contribution("c4", kind, 2, None, Some(4), None,
                   [b \in {"2y+"} |-> 2],
                   <<>>)>>

\* The contributions the aggregator is given, each once as floats and once
\* as Decimals, under distinct instrument ids.
ContributionUniverse ==
    ContributionShapes("decimal")
        \o [i \in 1..Len(ContributionShapes("float")) |->
              [ContributionShapes("float")[i] EXCEPT
                  !.instrument_id = @ \o "f"]]

RECURSIVE SelectIndices(_, _, _)
SelectIndices(s, chosen, i) ==
    IF i > Len(s) THEN <<>>
    ELSE (IF i \in chosen THEN <<s[i]>> ELSE <<>>)
            \o SelectIndices(s, chosen, i + 1)

\* list(contrib.currency_exposure.keys())[0] if contrib.currency_exposure else 'RUB'
ContributionCurrency(contrib) ==
    IF contrib.currency_exposure # <<>>
    THEN contrib.currency_exposure[1].currency
    ELSE "RUB"

\* The accumulators start at Decimal(0): adding a float to one raises.
AddsFloatToDecimal(contrib) ==
    /\ contrib.kind = "float"
    /\ \/ DOMAIN contrib.cash_flows # {}
       \/ (contrib.repricing_date # None /\ contrib.repricing_amount # 0)
       \/ contrib.currency_exposure # <<>>

CashFlowAt(contrib, ccy, bucket) ==
    IF ContributionCurrency(contrib) = ccy /\ bucket \in DOMAIN contrib.cash_flows
    THEN contrib.cash_flows[bucket]
    ELSE 0

liquidity_gaps_by_currency(cs) ==
    [key \in UNION {{<<ContributionCurrency(cs[i]), b>> :
                        b \in DOMAIN cs[i].cash_flows} : i \in DOMAIN cs}
     |-> SeqSum([i \in DOMAIN cs |-> CashFlowAt(cs[i], key[1], key[2])])]

HasRepricing(contrib) ==
    contrib.repricing_date # None /\ contrib.repricing_amount # 0

RepricingAt(contrib, calculation_date, ccy, bucket) ==
    IF /\ HasRepricing(contrib)
       /\ ContributionCurrency(contrib) = ccy
       /\ _assign_to_irr_bucket(calculation_date, contrib.repricing_date[1]) = bucket
    THEN contrib.repricing_amount
    ELSE 0

irr_gaps_by_currency(cs, calculation_date) ==
    [key \in {<<ContributionCurrency(cs[i]),
                _assign_to_irr_bucket(calculation_date, cs[i].repricing_date[1])>> :
                 i \in {j \in DOMAIN cs : HasRepricing(cs[j])}}
     |-> SeqSum([i \in DOMAIN cs |->
                    RepricingAt(cs[i], calculation_date, key[1], key[2])])]

ExposureIn(contrib, ccy) ==
    SeqSum([l \in DOMAIN contrib.currency_exposure |->
               IF contrib.currency_exposure[l].currency = ccy
               THEN contrib.currency_exposure[l].exposure ELSE 0])

ExposureCurrencies(contrib) ==
    {contrib.currency_exposure[l].currency : l \in DOMAIN contrib.currency_exposure}

fx_positions(cs) ==
    [ccy \in UNION {ExposureCurrencies(cs[i]) : i \in DOMAIN cs}
     |-> SeqSum([i \in DOMAIN cs |-> ExposureIn(cs[i], ccy)])]

GapAt(gaps, ccy, bucket) ==
    IF <<ccy, bucket>> \in DOMAIN gaps THEN gaps[<<ccy, bucket>>] ELSE 0

\* _calculate_cumulative_gaps: per currency of the table, the running sum of
\* the gaps over bucket_order.
_calculate_cumulative_gaps(liquidity_gaps) ==
    [ccy \in {key[1] : key \in DOMAIN liquidity_gaps} |->
        [k \in DOMAIN bucket_order |->
            SeqSum([j \in 1..k |-> GapAt(liquidity_gaps, ccy, bucket_order[j])])]]

\* _calculate_survival_horizon: the days of the first bucket whose
\* cumulative gap is negative, 1095 when none is.
_calculate_survival_horizon(cumulative_gaps) ==
    [ccy \in DOMAIN cumulative_gaps |->
        LET negative_gaps == {k \in DOMAIN bucket_order : cumulative_gaps[ccy][k] < 0}
        IN IF negative_gaps # {}
           THEN bucket_days_mapping(
                    bucket_order[CHOOSE k \in negative_gaps :
                                    \A j \in negative_gaps : k <= j])
           ELSE 1095]

Abs(x) == IF x < 0 THEN -x ELSE x

RECURSIVE SumOverKeys(_, _)
SumOverKeys(f, keys) ==
    IF keys = {} THEN 0
    ELSE LET key == CHOOSE k \in keys : TRUE
         IN f[key] + SumOverKeys(f, keys \ {key})

TableSum(f) == SumOverKeys(f, DOMAIN f)

NoTable == [key \in {} |-> 0]

NotAggregated ==
    [status |-> "none", liquidity_gaps |-> NoTable, cumulative_gaps |-> NoTable,
     survival_horizon_days |-> NoTable, interest_rate_gaps |-> NoTable,
     repricing_gap_total |-> 0, duration_gap |-> None, dv01_total |-> None,
     fx_positions |-> NoTable, fx_exposure_total |-> 0, total_assets |-> 0,
     total_liabilities |-> 0, net_position |-> 0]

PositiveExposure(contrib) ==
    SeqSum([l \in DOMAIN contrib.currency_exposure |->
               IF contrib.currency_exposure[l].exposure > 0
               THEN contrib.currency_exposure[l].exposure ELSE 0])

NegativeExposure(contrib) ==
    SeqSum([l \in DOMAIN contrib.currency_exposure |->
               IF contrib.currency_exposure[l].exposure > 0
               THEN 0 ELSE Abs(contrib.currency_exposure[l].exposure)])

OptionalValues(cs, field) ==
    SelectIndices([i \in DOMAIN cs |->
                      IF cs[i][field] # None THEN cs[i][field][1] ELSE 0],
                  {i \in DOMAIN cs : cs[i][field] # None}, 1)

\* ScenarioCalculator._aggregate_risks.  duration_gap is the mean of the
\* durations, kept as their sum and their number.
_aggregate_risks(risk_contributions, calculation_date) ==
    IF \E i \in DOMAIN risk_contributions :
           AddsFloatToDecimal(risk_contributions[i])
    THEN [NotAggregated EXCEPT !.status = "TypeError"]
    ELSE LET liq == liquidity_gaps_by_currency(risk_contributions)
             cum == _calculate_cumulative_gaps(liq)
             irr == irr_gaps_by_currency(risk_contributions, calculation_date)
             fx == fx_positions(risk_contributions)
             durations == OptionalValues(risk_contributions, "duration")
             dv01s == OptionalValues(risk_contributions, "dv01")
             assets == SeqSum([i \in DOMAIN risk_contributions |->
                                  PositiveExposure(risk_contributions[i])])
             liabilities == SeqSum([i \in DOMAIN risk_contributions |->
                                       NegativeExposure(risk_contributions[i])])
         IN [status |-> "returned",
             liquidity_gaps |-> liq,
             cumulative_gaps |-> cum,
             survival_horizon_days |-> _calculate_survival_horizon(cum),
             interest_rate_gaps |-> irr,
             repricing_gap_total |-> TableSum(irr),
             duration_gap |-> IF durations = <<>> THEN None
                              ELSE Some([sum |-> SeqSum(durations),
                                         len |-> Len(durations)]),
             dv01_total |-> IF dv01s = <<>> THEN None ELSE Some(SeqSum(dv01s)),
             fx_positions |-> fx,
             fx_exposure_total |-> TableSum([ccy \in DOMAIN fx |-> Abs(fx[ccy])]),
             total_assets |-> assets,
             total_liabilities |-> liabilities,
             net_position |-> assets - liabilities]

AggregateCalls == {"A", "B", "AB"}

ContributionsOf(call) ==
    CASE call = "A" -> contributions_A
      [] call = "B" -> contributions_B
      [] call = "AB" -> contributions_A \o contributions_B

\* scenario.calculation_date: the day the repricing dates of the
\* contributions are counted from, or a day after some of them.
AggregationDates == {0, 30}

\* Two disjoint sets of contributions, as the lists the aggregator is given.
AggInit ==
    /\ \E chosen_A, chosen_B \in SUBSET DOMAIN ContributionUniverse :
          /\ chosen_A \cap chosen_B = {}
          /\ contributions_A = SelectIndices(ContributionUniverse, chosen_A, 1)
          /\ contributions_B = SelectIndices(ContributionUniverse, chosen_B, 1)
    /\ aggregation_date \in AggregationDates
    /\ aggregates = [call \in AggregateCalls |-> NotAggregated]

AggregateRisks(call) ==
    /\ aggregates[call].status = "none"
    /\ aggregates' = [aggregates EXCEPT
                         ![call] = _aggregate_risks(ContributionsOf(call),
                                                    aggregation_date)]
    /\ UNCHANGED <<contributions_A, contributions_B, aggregation_date>>

AggNext == \E call \in AggregateCalls : AggregateRisks(call)

---------------------------------------------------------------------------
(* Claims about the FactorAnalyzer *)

EffectAt(effect, key) ==
    IF effect.t = "map" /\ key \in DOMAIN effect.m THEN effect.m[key]
    ELSE Num("int", 0)

\* aging_effect + new_deals_effect == total_change, for a scalar metric and
\* key by key for a mapping metric (a key missing on one side counts as zero).
FactorIdentity(results) ==
    LET a == results.aging_effect
        n == results.new_deals_effect
        t == results.total_change
    IN \/ /\ a.t = "num" /\ n.t = "num" /\ t.t = "num"
          /\ IsNum(a.n) /\ IsNum(n.n) /\ IsNum(t.n)
          /\ a.n.v + n.n.v = t.n.v
       \/ /\ a.t = "map" /\ n.t = "map" /\ t.t = "map"
          /\ \A key \in DOMAIN a.m \cup DOMAIN n.m \cup DOMAIN t.m :
                /\ IsNum(EffectAt(a, key))
                /\ IsNum(EffectAt(n, key))
                /\ IsNum(EffectAt(t, key))
                /\ EffectAt(a, key).v + EffectAt(n, key).v = EffectAt(t, key).v

\* C1: for any base and comparison portfolios and any metric whose value is
\* a number or a mapping of numbers, analyze returns effects with
\* aging_effect + new_deals_effect == total_change.
C1_FactorIdentity ==
    fa_pc # "constructed" => (fa_pc = "returned" /\ FactorIdentity(analysis_results))

\* C1, for the metrics whose values are int or float: the identity holds.
C1_FactorIdentityIntFloat ==
    (fa_pc # "constructed" /\ metric_calculator.kind # "decimal")
        => (fa_pc = "returned" /\ FactorIdentity(analysis_results))

C1_Witness ==
    /\ fa_pc = "returned"
    /\ metric_calculator.kind # "decimal"
    /\ analysis_results.new_products_count > 0
    /\ analysis_results.existing_products_count > 0
    /\ analysis_results.total_change # analysis_results.new_deals_effect

---------------------------------------------------------------------------
(* Claims about the aggregator *)

AllAggregated == \A call \in AggregateCalls : aggregates[call].status # "none"

AllReturned == \A call \in AggregateCalls : aggregates[call].status = "returned"

FxAt(positions, ccy) == IF ccy \in DOMAIN positions THEN positions[ccy] ELSE 0

AggregationCurrencies == {"RUB", "USD", "EUR"}

IrrBuckets ==
    {"0-1m", "1-3m", "3-6m", "6-12m", "1-2y", "2-3y", "3-5y", "5-7y",
     "7-10y", "10y+"}

\* Gap by gap, the aggregate of A and B together is the sum of the two
\* aggregates; a missing key counts as zero.
Linear ==
    /\ \A ccy \in AggregationCurrencies :
          /\ \A k \in DOMAIN bucket_order :
                GapAt(aggregates["AB"].liquidity_gaps, ccy, bucket_order[k])
                   = GapAt(aggregates["A"].liquidity_gaps, ccy, bucket_order[k])
                     + GapAt(aggregates["B"].liquidity_gaps, ccy, bucket_order[k])
          /\ \A bucket \in IrrBuckets :
                GapAt(aggregates["AB"].interest_rate_gaps, ccy, bucket)
                   = GapAt(aggregates["A"].interest_rate_gaps, ccy, bucket)
                     + GapAt(aggregates["B"].interest_rate_gaps, ccy, bucket)
          /\ FxAt(aggregates["AB"].fx_positions, ccy)
                = FxAt(aggregates["A"].fx_positions, ccy)
                  + FxAt(aggregates["B"].fx_positions, ccy)
    /\ \A key \in DOMAIN aggregates["AB"].liquidity_gaps
                     \cup DOMAIN aggregates["AB"].interest_rate_gaps :
          key[1] \in AggregationCurrencies
    /\ DOMAIN aggregates["AB"].fx_positions \subseteq AggregationCurrencies

\* C2: for disjoint sets of contributions A and B, aggregating them together
\* produces, for every currency and bucket of liquidity_gaps,
\* interest_rate_gaps and fx_positions, the sum of the gaps produced by
\* aggregating A and B separately.
C2_AggregationLinear == AllAggregated => (AllReturned /\ Linear)

\* The aggregates that are produced are linear: the claim fails only where no
\* aggregate is produced.
C2_LinearWhenReturned == AllReturned => Linear

C2_Witness ==
    /\ AllReturned
    /\ contributions_A # <<>>
    /\ contributions_B # <<>>
    /\ \E key \in DOMAIN aggregates["A"].liquidity_gaps :
          key \in DOMAIN aggregates["B"].liquidity_gaps

C2_FloatWitness ==
    /\ AllAggregated
    /\ aggregates["AB"].status = "TypeError"

---------------------------------------------------------------------------
(* Instruments: Deposit and InterbankLoan *)

\* Dates are days after the calculation date.  amount_kind is the Python
\* type of amount: float as pydantic stores it at construction, Decimal
\* where one was assigned afterwards.  interest_rate is in basis points;
\* core_portion and the withdrawal rates are in tenths; avg_life_years is in
\* years.
Deposit(id, amt, ccy, demand, maturity, ctype) ==
    [variant |-> "Deposit", instrument_id |-> id, amount |-> amt,
     amount_kind |-> "float", currency |-> ccy,
     is_demand_deposit |-> demand, maturity_date |-> maturity,
     counterparty_type |-> ctype, interest_rate |-> None,
     core_portion |-> None, avg_life_years |-> None,
     withdrawal_rates |-> None, book |-> None, trading_portfolio |-> None]

\* InterbankLoan.__init__: is_placement defaults to amount > 0.
InterbankLoan(id, amt, ccy, maturity, placement) ==
    [variant |-> "InterbankLoan", instrument_id |-> id, amount |-> amt,
     amount_kind |-> "float", currency |-> ccy, maturity_date |-> Some(maturity),
     counterparty_type |-> Some("bank"), interest_rate |-> None,
     is_placement |-> IF placement = None THEN amt > 0 ELSE placement[1],
     book |-> None, trading_portfolio |-> None]

\* A string is the sequence of its characters.
TradingPrefix == <<"T", "R", "A", "D", "I", "N", "G", "_">>

\* str.startswith
startswith(s, prefix) ==
    /\ Len(s) >= Len(prefix)
    /\ SubSeq(s, 1, Len(prefix)) = prefix

\* A book decided by the prefix "TRADING", without the underscore.
determine_book_loose(instrument) ==
    IF /\ instrument.trading_portfolio # None
       /\ startswith(instrument.trading_portfolio[1], SubSeq(TradingPrefix, 1, 7))
    THEN "trading" ELSE "banking"

\* BaseInstrument.determine_book: a trading_portfolio that is None or the
\* empty string is false.
determine_book(instrument) ==
    IF /\ instrument.trading_portfolio # None
       /\ instrument.trading_portfolio[1] # <<>>
       /\ startswith(instrument.trading_portfolio[1], TradingPrefix)
    THEN "trading" ELSE "banking"

\* BaseInstrument.get_book
get_book(instrument) ==
    IF instrument.book = None THEN determine_book(instrument)
    ELSE instrument.book[1]

\* A rational number, for the durations and DV01s.
Rat(num, den) == [num |-> num, den |-> den]

\* date_utils.assign_to_bucket; the list of buckets it is given is not read.
assign_to_bucket(from_date, target_date) ==
    LET days_diff == target_date - from_date
    IN IF days_diff <= 0 THEN "overnight"
       ELSE IF days_diff <= 30 THEN "0-30d"
       ELSE IF days_diff <= 90 THEN "30-90d"
       ELSE IF days_diff <= 180 THEN "90-180d"
       ELSE IF days_diff <= 365 THEN "180-365d"
       ELSE IF days_diff <= 730 THEN "1-2y"
       ELSE "2y+"

\* Deposit._bucket_to_date
_bucket_to_date(from_date, bucket) ==
    from_date + (CASE bucket = "0-30d" -> 15
                   [] bucket = "30-90d" -> 60
                   [] bucket = "90-180d" -> 135
                   [] bucket = "180-365d" -> 270
                   [] bucket = "1-2y" -> 548
                   [] bucket = "2y+" -> 1095
                   [] OTHER -> 180)

\* The bucket names in the order sorted() gives them.
SortedBuckets ==
    <<"0-30d", "1-2y", "180-365d", "2y+", "30-90d", "90-180d">>

\* int(avg_life_years * 365.25)
AvgLifeDays(years) == (years * 1461) \div 4

NoFlows == [d \in {} |-> 0]

Put(f, key, value) ==
    [k \in DOMAIN f \cup {key} |-> IF k = key THEN value ELSE f[k]]

\* The withdrawals of a demand deposit, bucket by bucket in sorted order
\* from position i on: [flows, remaining].
RECURSIVE Withdrawals(_, _, _, _, _)
Withdrawals(rates, calculation_date, remaining_balance, flows, i) ==
    IF i > Len(SortedBuckets) THEN [flows |-> flows, remaining |-> remaining_balance]
    ELSE IF SortedBuckets[i] \notin DOMAIN rates
         THEN Withdrawals(rates, calculation_date, remaining_balance, flows, i + 1)
         ELSE LET withdrawal_amount ==
                      (remaining_balance * rates[SortedBuckets[i]]) \div 10
              IN Withdrawals(rates, calculation_date,
                             remaining_balance - withdrawal_amount,
                             Put(flows,
                                 _bucket_to_date(calculation_date, SortedBuckets[i]),
                                 withdrawal_amount),
                             i + 1)

\* Deposit._generate_cash_flows: a map from date to amount, or TypeError
\* where a float amount meets Decimal(rate).
Deposit_generate_cash_flows(deposit, calculation_date) ==
    IF deposit.is_demand_deposit
    THEN IF deposit.withdrawal_rates # None /\ DOMAIN deposit.withdrawal_rates[1] # {}
         THEN IF deposit.amount_kind = "float"
              THEN [status |-> "TypeError", flows |-> NoFlows]
              ELSE LET w == Withdrawals(deposit.withdrawal_rates[1], calculation_date,
                                        deposit.amount, NoFlows, 1)
                       stable_date ==
                           IF Truthy(deposit.avg_life_years)
                           THEN calculation_date + AvgLifeDays(deposit.avg_life_years[1])
                           ELSE calculation_date + 3 * 365
                   IN [status |-> "returned",
                       flows |-> IF w.remaining > 0
                                 THEN Put(w.flows, stable_date, w.remaining)
                                 ELSE w.flows]
         ELSE [status |-> "returned",
               flows |-> Put(NoFlows, calculation_date + 1, deposit.amount)]
    ELSE IF deposit.maturity_date # None /\ deposit.maturity_date[1] >= calculation_date
         THEN [status |-> "returned",
               flows |-> Put(NoFlows, deposit.maturity_date[1], deposit.amount)]
         ELSE [status |-> "returned", flows |-> NoFlows]

\* The loop that books the cash flows into the contribution's buckets with
\* the given sign: the sum, per bucket, of the flows whose date falls in it.
BucketedFlows(flows, calculation_date, sign) ==
    [bucket \in {assign_to_bucket(calculation_date, d) : d \in DOMAIN flows} |->
        sign * SumOverKeys(flows, {d \in DOMAIN flows :
                                      assign_to_bucket(calculation_date, d) = bucket})]

NoContribution ==
    Contribution("", "float", 0, None, None, None, NoFlows, <<>>)

Raises == [status |-> "TypeError", contribution |-> NoContribution]

\* Deposit.calculate_risk_contribution.  A float and a Decimal do not
\* multiply, add or subtract: the first statement that mixes them raises.
Deposit_calculate_risk_contribution(deposit, calculation_date) ==
    LET repricing_date ==
            IF deposit.is_demand_deposit
            THEN (IF Truthy(deposit.avg_life_years)
                  THEN Some(calculation_date + AvgLifeDays(deposit.avg_life_years[1]))
                  ELSE Some(calculation_date + 1))
            ELSE deposit.maturity_date
        scaled == deposit.is_demand_deposit /\ Truthy(deposit.core_portion)
        repricing_amount ==
            IF scaled THEN (deposit.amount * deposit.core_portion[1]) \div 10
            ELSE deposit.amount
        cash_flows == Deposit_generate_cash_flows(deposit, calculation_date)
    IN IF scaled /\ deposit.amount_kind = "float" THEN Raises
       ELSE IF /\ ~deposit.is_demand_deposit
               /\ deposit.maturity_date # None
               /\ Truthy(deposit.interest_rate)
            THEN Raises
       ELSE IF cash_flows.status # "returned" THEN Raises
       ELSE IF DOMAIN cash_flows.flows # {} /\ deposit.amount_kind = "float"
            THEN Raises
       ELSE [status |-> "returned",
             contribution |->
                 Contribution(deposit.instrument_id, deposit.amount_kind,
                              repricing_amount, repricing_date, None, None,
                              BucketedFlows(cash_flows.flows, calculation_date, -1),
                              <<Leg(deposit.currency, -deposit.amount)>>)]

\* InterbankLoan._generate_cash_flows
InterbankLoan_generate_cash_flows(loan, calculation_date) ==
    IF loan.maturity_date[1] >= calculation_date
    THEN Put(NoFlows, loan.maturity_date[1],
             loan.amount * (IF loan.is_placement THEN 1 ELSE -1))
    ELSE NoFlows

\* InterbankLoan.calculate_risk_contribution.  duration is
\* days / 365.25, modified_duration is duration / (1 + interest_rate) and
\* dv01 is amount * modified_duration * 0.0001 * dv01_sign.
InterbankLoan_calculate_risk_contribution(loan, calculation_date) ==
    LET days == loan.maturity_date[1] - calculation_date
        priced == Truthy(loan.interest_rate)
        dv01_sign == IF loan.is_placement THEN 1 ELSE -1
        fx_sign == IF loan.is_placement THEN 1 ELSE -1
        cash_flows == InterbankLoan_generate_cash_flows(loan, calculation_date)
    IN IF priced /\ loan.amount_kind = "float" THEN Raises
       ELSE IF DOMAIN cash_flows # {} /\ loan.amount_kind = "float" THEN Raises
       ELSE [status |-> "returned",
             contribution |->
                 Contribution(loan.instrument_id, loan.amount_kind,
                              loan.amount, loan.maturity_date,
                              IF priced THEN Some(Rat(days * 4, 1461)) ELSE None,
                              IF priced
                              THEN Some(Rat(loan.amount * days * 4 * dv01_sign,
                                            1461 * (10000 + loan.interest_rate[1])))
                              ELSE None,
                              BucketedFlows(cash_flows, calculation_date, 1),
                              <<Leg(loan.currency, loan.amount * fx_sign)>>)]

\* An OffBalanceInstrument of off_balance_type 'credit_line', without
\* draw_down_probability, settlement_date or expiry_date.  available_kind
\* and utilized_kind are the Python types of the two optional amounts.
OffBalanceInstrument(id, notional, ccy, available, utilized) ==
    [variant |-> "OffBalanceInstrument", instrument_id |-> id,
     amount |-> notional, amount_kind |-> "float", currency |-> ccy,
     maturity_date |-> None, counterparty_type |-> None,
     interest_rate |-> None, notional_amount |-> notional,
     available_amount |-> available, available_kind |-> "float",
     utilized_amount |-> utilized, utilized_kind |-> "float",
     book |-> None, trading_portfolio |-> None]

\* OffBalanceInstrument._calculate_contingent_contribution: the expected
\* draw-down is half of the available amount, or of the notional where
\* there is none, due in 30 days; a Decimal available amount times
\* float(draw_down_prob) raises.
OffBalance_calculate_risk_contribution(instrument, calculation_date) ==
    LET expected_draw_down ==
            IF Truthy(instrument.available_amount)
            THEN instrument.available_amount[1] \div 2
            ELSE instrument.notional_amount \div 2
        cash_flows == Put(NoFlows, calculation_date + 30, -expected_draw_down)
    IN IF /\ Truthy(instrument.available_amount)
          /\ instrument.available_kind = "decimal"
       THEN Raises
       ELSE [status |-> "returned",
             contribution |->
                 Contribution(instrument.instrument_id, "float", 0, None,
                              None, None,
                              BucketedFlows(cash_flows, calculation_date, 1),
                              <<Leg(instrument.currency, -expected_draw_down)>>)]

calculate_risk_contribution(instrument, calculation_date) ==
    IF instrument.variant = "Deposit"
    THEN Deposit_calculate_risk_contribution(instrument, calculation_date)
    ELSE IF instrument.variant = "InterbankLoan"
    THEN InterbankLoan_calculate_risk_contribution(instrument, calculation_date)
    ELSE OffBalance_calculate_risk_contribution(instrument, calculation_date)

---------------------------------------------------------------------------
(* DepositElasticityCalculator *)

\* Elasticities, adjustment_speed and competitive_factor are held in tenths,
\* max_volume_change and min_remaining_volume in hundredths, rate shocks in
\* basis points (hundredths of a percentage point).  A volume change in
\* per cent is elasticity * rate_change_pct * speed * factor, so it is a
\* whole number of 1/Scale; amounts of the result are held in 1/Scale too.
Scale == 10 * 100 * 10 * 10

Hundredths(x) == x * (Scale \div 100)

ElasticityParameters(segment, dtype, base, asym, pos, neg, thr, below, above, ceiling, floor, speed, factor, maxchg, minrem) ==
    [customer_segment |-> segment, deposit_type |-> dtype,
     base_elasticity |-> base, asymmetric |-> asym,
     positive_shock_elasticity |-> pos, negative_shock_elasticity |-> neg,
     threshold_rate_change |-> thr, below_threshold_elasticity |-> below,
     above_threshold_elasticity |-> above,
     elasticity_ceiling |-> ceiling, elasticity_floor |-> floor,
     adjustment_speed |-> speed, competitive_factor |-> factor,
     max_volume_change |-> maxchg, min_remaining_volume |-> minrem]

create_retail_demand_default ==
    ElasticityParameters("retail", "demand", -3, TRUE, Some(-2), Some(-4),
                         None, None, None, None, None, 5, 10,
                         Some(15), Some(60))

create_retail_term_default ==
    ElasticityParameters("retail", "short_term", -5, TRUE, Some(-6), Some(-4),
                         Some(100), Some(-3), Some(-8), None, None, 7, 10,
                         Some(25), Some(50))

create_corporate_default ==
    ElasticityParameters("corporate", "short_term", -8, FALSE, None, None,
                         None, None, None, None, None, 9, 15,
                         Some(40), Some(30))

\* The parameters of the constraint tests: a very strong linear elasticity.
StrongLinear ==
    ElasticityParameters("retail", "demand", -20, FALSE, None, None,
                         None, None, None, None, None, 10, 10,
                         Some(15), Some(70))

\* A threshold model with a floor and a ceiling on the elasticity.
ThresholdBounded ==
    ElasticityParameters("corporate", "demand", -5, FALSE, None, None,
                         Some(100), Some(-3), Some(-30), Some(-4), Some(-12),
                         10, 10, Some(25), Some(50))

\* An asymmetric model that has no elasticity for positive shocks, with a
\* threshold model beside it.
AsymmetricNegativeOnly ==
    ElasticityParameters("retail", "demand", -5, TRUE, None, Some(-4),
                         Some(100), Some(-3), Some(-8), None, None, 10, 10,
                         Some(25), Some(50))

\* A threshold model with no reaction below the threshold.
ThresholdInert ==
    ElasticityParameters("corporate", "demand", -5, FALSE, None, None,
                         Some(100), Some(0), Some(-8), None, None, 10, 10,
                         Some(25), Some(50))

\* Each parameter set as written, and with either limit absent or zero.
ParameterSets ==
    {[[base EXCEPT !.max_volume_change = maxchg]
             EXCEPT !.min_remaining_volume = minrem] :
        base \in {create_retail_demand_default, create_retail_term_default,
                  create_corporate_default, StrongLinear, ThresholdBounded,
                  AsymmetricNegativeOnly, ThresholdInert},
        maxchg \in {None, Some(0)} \cup
                   {p.max_volume_change : p \in {create_retail_demand_default,
                                                  create_corporate_default}},
        minrem \in {None, Some(0)} \cup
                   {p.min_remaining_volume : p \in {StrongLinear}}}

DepositUniverse ==
    <<Deposit("DEP_001", 1000, "RUB", TRUE, None, Some("retail")),
      Deposit("DEP_002", 400, "RUB", FALSE, Some(60), Some("retail")),
      Deposit("DEP_003", 200, "USD", FALSE, Some(60), Some("corporate")),
      Deposit("DEP_004", 800, "RUB", FALSE, Some(200), Some("corporate bank")),
      Deposit("DEP_005", 100, "RUB", TRUE, None, None)>>

RubShocks == {-500, -100, 0, 50, 100, 500}

UsdShocks == {0, 200}

\* The substrings _determine_customer_segment looks for.
Contains(ctype, token) ==
    CASE ctype = "retail" -> token = "retail"
      [] ctype = "corporate" -> token = "corporate"
      [] ctype = "corporate bank" -> token \in {"corporate", "bank"}
      [] OTHER -> FALSE

\* _determine_customer_segment without a custom mapper; a counterparty_type
\* of None has no lower().
_determine_customer_segment(deposit) ==
    IF deposit.counterparty_type = None THEN "AttributeError"
    ELSE LET ctype == deposit.counterparty_type[1]
         IN IF Contains(ctype, "retail") THEN "retail"
            ELSE IF Contains(ctype, "corporate") THEN "corporate"
            ELSE IF Contains(ctype, "sme") THEN "sme"
            ELSE IF Contains(ctype, "gov") THEN "government"
            ELSE IF Contains(ctype, "bank") THEN "bank"
            ELSE "retail"

\* _determine_deposit_type; maturity_date is held in days after the
\* calculator's calculation_date.
_determine_deposit_type(deposit) ==
    IF deposit.is_demand_deposit THEN "demand"
    ELSE IF deposit.maturity_date # None
         THEN (IF deposit.maturity_date[1] <= 90 THEN "short_term"
               ELSE IF deposit.maturity_date[1] <= 365 THEN "medium_term"
               ELSE "long_term")
         ELSE "demand"

Min(a, b) == IF a <= b THEN a ELSE b

Max(a, b) == IF a >= b THEN a ELSE b

\* An elasticity that answers the size of a shock and not its direction.
_determine_elasticity_unsigned(rate_shock_bps, params) ==
    IF rate_shock_bps > 0 THEN params.base_elasticity
    ELSE -params.base_elasticity

\* _determine_elasticity; rate_shock_bps stands for rate_change_pct * 100.
_determine_elasticity(rate_shock_bps, params) ==
    LET chosen ==
            IF params.asymmetric
            THEN (IF rate_shock_bps > 0 /\ params.positive_shock_elasticity # None
                  THEN params.positive_shock_elasticity[1]
                  ELSE IF rate_shock_bps < 0
                          /\ params.negative_shock_elasticity # None
                       THEN params.negative_shock_elasticity[1]
                       ELSE params.base_elasticity)
            ELSE IF /\ Truthy(params.threshold_rate_change)
                    /\ Truthy(params.below_threshold_elasticity)
                    /\ Truthy(params.above_threshold_elasticity)
                 THEN (IF Abs(rate_shock_bps) < params.threshold_rate_change[1]
                       THEN params.below_threshold_elasticity[1]
                       ELSE params.above_threshold_elasticity[1])
                 ELSE params.base_elasticity
        capped == IF params.elasticity_ceiling # None
                  THEN Min(chosen, params.elasticity_ceiling[1])
                  ELSE chosen
    IN IF params.elasticity_floor # None
       THEN Max(capped, params.elasticity_floor[1])
       ELSE capped

\* _calculate_single_deposit_change.  new_amount, volume_change and
\* volume_change_pct are in 1/Scale.  original_amount * float(...) needs a
\* float amount: calculate_volume_changes raises TypeError on a Decimal one.
_calculate_single_deposit_change(deposit, rate_shock_bps, params) ==
    LET original_amount == deposit.amount
        elasticity == _determine_elasticity(rate_shock_bps, params)
        unclipped == elasticity * rate_shock_bps
                        * params.adjustment_speed * params.competitive_factor
        volume_change_pct ==
            IF Truthy(params.max_volume_change)
            THEN Max(-Hundredths(params.max_volume_change[1]),
                     Min(Hundredths(params.max_volume_change[1]), unclipped))
            ELSE unclipped
        unfloored == original_amount * (Scale + volume_change_pct)
        new_amount ==
            IF Truthy(params.min_remaining_volume)
            THEN Max(original_amount * Hundredths(params.min_remaining_volume[1]),
                     unfloored)
            ELSE unfloored
        volume_change == new_amount - original_amount * Scale
    IN [instrument_id |-> deposit.instrument_id,
        original_amount |-> original_amount,
        new_amount |-> new_amount,
        volume_change |-> volume_change,
        volume_change_pct |-> IF original_amount > 0
                              THEN volume_change \div original_amount
                              ELSE 0,
        rate_change_bps |-> rate_shock_bps,
        elasticity_used |-> elasticity,
        customer_segment |-> _determine_customer_segment(deposit),
        deposit_type |-> _determine_deposit_type(deposit)]

\* rate_shocks.get(deposit.currency, 0.0)
ShockFor(shocks, currency) ==
    IF currency \in DOMAIN shocks THEN shocks[currency] ELSE 0

\* The key calculate_volume_changes reads the parameters under: that of the
\* segment and deposit type, else that of the segment's demand deposits.
ParamsKey(params_dict, segment, deposit_type) ==
    IF <<segment, deposit_type>> \in DOMAIN params_dict
    THEN Some(<<segment, deposit_type>>)
    ELSE IF <<segment, "demand">> \in DOMAIN params_dict
         THEN Some(<<segment, "demand">>)
         ELSE None

\* calculate_volume_changes, deposit by deposit from index i on.
RECURSIVE VolumeChangesFrom(_, _, _, _)
VolumeChangesFrom(params_dict, ds, shocks, i) ==
    IF i > Len(ds) THEN [status |-> "returned", changes |-> <<>>]
    ELSE LET deposit == ds[i]
             rate_shock_bps == ShockFor(shocks, deposit.currency)
             rest == VolumeChangesFrom(params_dict, ds, shocks, i + 1)
         IN IF rate_shock_bps = 0 THEN rest
            ELSE IF _determine_customer_segment(deposit) = "AttributeError"
                 THEN [status |-> "AttributeError", changes |-> <<>>]
                 ELSE LET params_key ==
                              ParamsKey(params_dict,
                                        _determine_customer_segment(deposit),
                                        _determine_deposit_type(deposit))
                      IN IF params_key = None THEN rest
                         ELSE IF deposit.amount_kind = "decimal"
                              THEN [status |-> "TypeError", changes |-> <<>>]
                         ELSE IF rest.status # "returned" THEN rest
                              ELSE [rest EXCEPT !.changes =
                                      <<_calculate_single_deposit_change(
                                           deposit, rate_shock_bps,
                                           params_dict[params_key[1]])>> \o @]

calculate_volume_changes(params_dict, ds, shocks) ==
    VolumeChangesFrom(params_dict, ds, shocks, 1)

ElastParked ==
    /\ elasticity_params = [key \in {} |-> create_retail_demand_default]
    /\ deposits = <<>>
    /\ rate_shocks = [c \in {} |-> 0]
    /\ volume_changes = <<>>
    /\ elast_pc = "constructed"

\* DepositElasticityCalculator.__init__ with one parameter set, under the key
\* of its segment and deposit type.
ElastInit ==
    /\ \E params \in ParameterSets :
          elasticity_params =
              [key \in {<<params.customer_segment, params.deposit_type>>}
                  |-> params]
    /\ deposits = <<>>
    /\ rate_shocks = [c \in {} |-> 0]
    /\ volume_changes = <<>>
    /\ elast_pc = "constructed"

CalculateVolumeChanges ==
    /\ elast_pc = "constructed"
    /\ \E chosen \in SUBSET DOMAIN DepositUniverse,
          rub \in RubShocks, usd \in UsdShocks,
          shocked \in {{"RUB"}, {"RUB", "USD"}} :
        LET ds == SelectIndices(DepositUniverse, chosen, 1)
            shocks == [c \in shocked |-> IF c = "RUB" THEN rub ELSE usd]
            outcome == calculate_volume_changes(elasticity_params, ds, shocks)
        IN /\ Cardinality(chosen) <= MaxDeposits
           /\ deposits' = ds
           /\ rate_shocks' = shocks
           /\ volume_changes' = outcome.changes
           /\ elast_pc' = outcome.status
    /\ UNCHANGED elasticity_params

ElastNext == CalculateVolumeChanges

---------------------------------------------------------------------------
(* Claims about the DepositElasticityCalculator *)

\* The parameters a volume change was computed with.
ApplicableParams(vc) ==
    elasticity_params[ParamsKey(elasticity_params, vc.customer_segment,
                                vc.deposit_type)[1]]

\* C3: for every deposit and every rate shock, whenever min_remaining_volume
\* is set in the applicable elasticity parameters, new_amount is at least
\* original_amount * min_remaining_volume.
C3_MinRemainingVolume ==
    \A i \in DOMAIN volume_changes :
        LET vc == volume_changes[i]
            params == ApplicableParams(vc)
        IN params.min_remaining_volume # None =>
              vc.new_amount >= vc.original_amount
                                  * Hundredths(params.min_remaining_volume[1])

\* The floor holds where min_remaining_volume is set to more than zero.
C3_MinRemainingVolumeNonzero ==
    \A i \in DOMAIN volume_changes :
        LET vc == volume_changes[i]
            params == ApplicableParams(vc)
        IN Truthy(params.min_remaining_volume) =>
              vc.new_amount >= vc.original_amount
                                  * Hundredths(params.min_remaining_volume[1])

\* The floor is what sets new_amount.
C3_Witness ==
    \E i \in DOMAIN volume_changes :
        LET vc == volume_changes[i]
            params == ApplicableParams(vc)
        IN /\ Truthy(params.min_remaining_volume)
           /\ vc.new_amount = vc.original_amount
                                 * Hundredths(params.min_remaining_volume[1])
           /\ vc.new_amount < vc.original_amount * Scale

\* C4: for every deposit and every rate shock, whenever max_volume_change is
\* set in the applicable elasticity parameters, the relative volume change
\* (new_amount - original_amount) / original_amount is at most
\* max_volume_change in absolute value.
C4_MaxVolumeChange ==
    \A i \in DOMAIN volume_changes :
        LET vc == volume_changes[i]
            params == ApplicableParams(vc)
        IN params.max_volume_change # None =>
              Abs(vc.new_amount - vc.original_amount * Scale)
                 <= vc.original_amount * Hundredths(params.max_volume_change[1])

\* The clip holds where max_volume_change is set to more than zero.
C4_MaxVolumeChangeNonzero ==
    \A i \in DOMAIN volume_changes :
        LET vc == volume_changes[i]
            params == ApplicableParams(vc)
        IN Truthy(params.max_volume_change) =>
              Abs(vc.new_amount - vc.original_amount * Scale)
                 <= vc.original_amount * Hundredths(params.max_volume_change[1])

\* The clip is what sets the volume change.
C4_Witness ==
    \E i \in DOMAIN volume_changes :
        LET vc == volume_changes[i]
            params == ApplicableParams(vc)
        IN /\ Truthy(params.max_volume_change)
           /\ Abs(vc.volume_change_pct) = Hundredths(params.max_volume_change[1])
           /\ Abs(vc.elasticity_used * vc.rate_change_bps
                     * params.adjustment_speed * params.competitive_factor)
                 > Hundredths(params.max_volume_change[1])

---------------------------------------------------------------------------
(* CurrencyInterestRateGapCalculator and DynamicBalanceIRRCalculator *)

repricing_buckets ==
    <<"0-1m", "1-3m", "3-6m", "6-12m", "1-2y", "2-3y", "3-5y", "5-7y",
      "7-10y", "10y+">>

target_currencies == {"RUB", "USD", "EUR", "CNY"}

\* CurrencyInterestRateGapCalculator._date_to_bucket: no bucket for a date
\* before the calculation date.
_date_to_bucket(calculation_date, repricing_date) ==
    IF repricing_date - calculation_date < 0 THEN None
    ELSE Some(_assign_to_irr_bucket(calculation_date, repricing_date))

\* The one element of a one-element set.
The(S) == CHOOSE x \in S : TRUE

Contributions(insts, calculation_date) ==
    [i \in DOMAIN insts |-> calculate_risk_contribution(insts[i], calculation_date)]

\* The bucket _collect_repricing_by_currency books a contribution in: none
\* where it has no repricing date or the date has no bucket.
BookedBucket(outcome, calculation_date) ==
    IF outcome.contribution.repricing_date = None THEN None
    ELSE _date_to_bucket(calculation_date, outcome.contribution.repricing_date[1])

BookedAmount(instrument, outcome, calculation_date, currency, bucket, side) ==
    IF /\ instrument.currency = currency
       /\ BookedBucket(outcome, calculation_date) = Some(bucket)
       /\ (side = "rsa") = (outcome.contribution.repricing_amount > 0)
    THEN Abs(outcome.contribution.repricing_amount)
    ELSE 0

\* The table _collect_repricing_by_currency builds from the contributions:
\* per currency and bucket the rate-sensitive assets and liabilities.  The
\* accumulators are Decimals: a float repricing_amount raises, as does a
\* contribution that raises.
RepricingData(insts, outcomes, calculation_date) ==
    IF \E i \in DOMAIN insts :
          \/ outcomes[i].status # "returned"
          \/ /\ BookedBucket(outcomes[i], calculation_date) # None
             /\ insts[i].amount_kind = "float"
    THEN [status |-> "TypeError", data |-> NoTable]
    ELSE [status |-> "returned",
          data |->
            [key \in {insts[i].currency :
                         i \in {j \in DOMAIN insts :
                                   BookedBucket(outcomes[j], calculation_date) # None}}
                     \X (Range(repricing_buckets)
                         \cup {BookedBucket(outcomes[i], calculation_date)[1] :
                                 i \in {j \in DOMAIN insts :
                                           BookedBucket(outcomes[j], calculation_date)
                                              # None}})
             |-> [rsa |-> SeqSum([i \in DOMAIN insts |->
                                     BookedAmount(insts[i], outcomes[i],
                                                  calculation_date,
                                                  key[1], key[2], "rsa")]),
                  rsl |-> SeqSum([i \in DOMAIN insts |->
                                     BookedAmount(insts[i], outcomes[i],
                                                  calculation_date,
                                                  key[1], key[2], "rsl")])]]]

\* _collect_repricing_by_currency
_collect_repricing_by_currency(insts, calculation_date) ==
    The({RepricingData(insts, outcomes, calculation_date) :
            outcomes \in {Contributions(insts, calculation_date)}})

\* Rows without the running sum: cumulative_gap is the gap of the bucket.
_calculate_gaps_per_bucket(currency, data) ==
    LET total_assets ==
            SumOverKeys([key \in DOMAIN data |-> data[key].rsa],
                        {key \in DOMAIN data : key[1] = currency})
        GapOf(k) == data[<<currency, repricing_buckets[k]>>].rsa
                       - data[<<currency, repricing_buckets[k]>>].rsl
    IN [k \in DOMAIN repricing_buckets |->
           [bucket |-> repricing_buckets[k],
            rsa |-> data[<<currency, repricing_buckets[k]>>].rsa,
            rsl |-> data[<<currency, repricing_buckets[k]>>].rsl,
            gap |-> GapOf(k),
            gap_ratio |-> IF total_assets > 0 THEN Rat(GapOf(k), total_assets)
                          ELSE Rat(0, 1),
            cumulative_gap |-> GapOf(k)]]

\* _calculate_gaps_for_currency: one row per repricing bucket.
_calculate_gaps_for_currency(currency, data) ==
    LET total_assets ==
            SumOverKeys([key \in DOMAIN data |-> data[key].rsa],
                        {key \in DOMAIN data : key[1] = currency})
        GapOf(k) == data[<<currency, repricing_buckets[k]>>].rsa
                       - data[<<currency, repricing_buckets[k]>>].rsl
    IN [k \in DOMAIN repricing_buckets |->
           [bucket |-> repricing_buckets[k],
            rsa |-> data[<<currency, repricing_buckets[k]>>].rsa,
            rsl |-> data[<<currency, repricing_buckets[k]>>].rsl,
            gap |-> GapOf(k),
            gap_ratio |-> IF total_assets > 0 THEN Rat(GapOf(k), total_assets)
                          ELSE Rat(0, 1),
            cumulative_gap |-> SeqSum([j \in 1..k |-> GapOf(j)])]]

GapTables(collected) ==
    IF collected.status # "returned"
    THEN [status |-> collected.status, gaps |-> NoTable]
    ELSE [status |-> "returned",
          gaps |-> [currency \in {key[1] : key \in DOMAIN collected.data}
                                    \cap target_currencies |->
                       _calculate_gaps_for_currency(currency, collected.data)]]

\* CurrencyInterestRateGapCalculator.calculate
gap_calculator_calculate(insts, calculation_date) ==
    The({GapTables(collected) :
            collected \in {_collect_repricing_by_currency(insts, calculation_date)}})

\* The duration _calculate_eve_impact gives a bucket, in 24ths of a year.
bucket_durations(bucket) ==
    CASE bucket = "0-1m" -> 1
      [] bucket = "1-3m" -> 4
      [] bucket = "3-6m" -> 9
      [] bucket = "6-12m" -> 18
      [] bucket = "1-2y" -> 36
      [] bucket = "2-3y" -> 60
      [] bucket = "3-5y" -> 96
      [] bucket = "5-7y" -> 144
      [] bucket = "7-10y" -> 204
      [] bucket = "10y+" -> 288
      [] OTHER -> 24

\* calculate_sensitivity: rate_shock is rate_shock_bps / 10000.  The gaps
\* are whole multiples of 10000 of their unit (amounts are whole hundreds,
\* shocks whole per cents), so nii_impact_1y comes out in the amounts' unit
\* and eve_impact in 24ths of it.
calculate_sensitivity(gaps_by_currency, rate_shock_bps) ==
    [currency \in DOMAIN gaps_by_currency |->
        LET gaps_df == gaps_by_currency[currency]
        IN [nii_impact_1y |->
                (SeqSum([k \in DOMAIN gaps_df |->
                            IF gaps_df[k].bucket \in {"0-1m", "1-3m", "3-6m", "6-12m"}
                            THEN gaps_df[k].gap ELSE 0]) \div 10000)
                   * rate_shock_bps,
            eve_impact |->
                -SeqSum([k \in DOMAIN gaps_df |->
                            (gaps_df[k].gap \div 10000)
                               * bucket_durations(gaps_df[k].bucket)
                               * rate_shock_bps]),
            gap_limits_breached |->
                \E k \in DOMAIN gaps_df :
                    Abs(gaps_df[k].gap_ratio.num) * 5 > gaps_df[k].gap_ratio.den,
            rate_shock_bps |-> rate_shock_bps]]

\* create_default_elasticity_config
create_default_elasticity_config ==
    [key \in ({"retail", "corporate"}
                 \X {"demand", "short_term", "medium_term", "long_term"})
             \cup {<<"sme", "short_term">>} |->
        CASE key = <<"retail", "demand">> -> create_retail_demand_default
          [] key[1] = "retail" /\ key[2] \in {"short_term", "medium_term"} ->
                [create_retail_term_default EXCEPT !.deposit_type = key[2]]
          [] key = <<"retail", "long_term">> ->
                ElasticityParameters("retail", "long_term", -3, FALSE, None, None,
                                     None, None, None, None, None, 3, 10,
                                     Some(10), Some(70))
          [] key[1] = "corporate" ->
                [create_corporate_default EXCEPT !.deposit_type = key[2]]
          [] OTHER ->
                ElasticityParameters("sme", "short_term", -6, FALSE, None, None,
                                     None, None, None, None, None, 8, 10,
                                     Some(30), Some(40))]

ScaleAmount(instrument) == [instrument EXCEPT !.amount = @ * Scale]

\* The last position of ds whose change carries the deposit's id, if any:
\* changes_dict keeps the last change of an instrument_id.
ChangeOf(changes, instrument_id) ==
    LET found == {k \in DOMAIN changes : changes[k].instrument_id = instrument_id}
    IN IF found = {} THEN None
       ELSE Some(changes[CHOOSE k \in found : \A j \in found : j <= k])

NewDeposits(ds, outcome) ==
    [status |-> outcome.status,
     new_deposits |->
        IF outcome.status # "returned" THEN <<>>
        ELSE [i \in DOMAIN ds |->
                IF ChangeOf(outcome.changes, ds[i].instrument_id) # None
                THEN [ds[i] EXCEPT
                        !.amount = ChangeOf(outcome.changes,
                                            ds[i].instrument_id)[1].new_amount,
                        !.amount_kind = "float"]
                ELSE ScaleAmount(ds[i])]]

\* create_dynamic_balance_sheet: a copy of every deposit, with the new
\* amount (a float) where its volume changed.  Amounts come out in 1/Scale.
create_dynamic_balance_sheet(params_dict, ds, shocks) ==
    The({NewDeposits(ds, outcome) :
            outcome \in {calculate_volume_changes(params_dict, ds, shocks)}})

\* rate_shocks is a dict in insertion order: a sequence of [currency, shock].
Shock(ccy, bps) == [currency |-> ccy, shock |-> bps]

ShocksDict(shocks) ==
    [c \in {shocks[k].currency : k \in DOMAIN shocks} |->
        (CHOOSE item \in Range(shocks) : item.currency = c).shock]

\* list(rate_shocks.values())[0] if rate_shocks else 100
FirstShock(shocks) == IF shocks # <<>> THEN shocks[1].shock ELSE 100

\* The parameters CurrencyInterestRateGapCalculator.calculate declares
\* after self.
calculate_parameters == <<"instruments", "risk_params">>

\* How Python binds the arguments of a call: the positional ones take the
\* first parameters, and every keyword must name a parameter left over.
Binds(parameters, positional, keywords) ==
    /\ positional <= Len(parameters)
    /\ \A keyword \in keywords :
          \E k \in DOMAIN parameters :
              k > positional /\ parameters[k] = keyword

\* _compare_static_vs_dynamic: per currency of both tables the difference
\* of the gaps, and of the NII and EVE impacts.
_compare_static_vs_dynamic(static_gaps, static_sensitivity, dynamic_gaps, dynamic_sensitivity) ==
    [currency \in DOMAIN static_gaps \cap DOMAIN dynamic_gaps |->
        [gap_diff |-> [k \in DOMAIN static_gaps[currency] |->
                          dynamic_gaps[currency][k].gap
                             - static_gaps[currency][k].gap],
         nii_impact_difference |->
             dynamic_sensitivity[currency].nii_impact_1y
                - static_sensitivity[currency].nii_impact_1y,
         eve_impact_difference |->
             dynamic_sensitivity[currency].eve_impact
                - static_sensitivity[currency].eve_impact]]

NoDynamicIrr ==
    [status |-> "none", static_gaps |-> NoTable, static_sensitivity |-> NoTable,
     dynamic_gaps |-> NoTable, dynamic_sensitivity |-> NoTable,
     volume_changes |-> <<>>, comparison |-> NoTable]

IsDeposit(instrument) == instrument.variant = "Deposit"

Deposits(s) == SelectIndices(s, {i \in DOMAIN s : IsDeposit(s[i])}, 1)

NonDeposits(s) == SelectIndices(s, {i \in DOMAIN s : ~IsDeposit(s[i])}, 1)

InBook(s, book) == SelectIndices(s, {i \in DOMAIN s : get_book(s[i]) = book}, 1)

ScaleAmounts(insts) == [i \in DOMAIN insts |-> ScaleAmount(insts[i])]

\* The result calculate_dynamic_irr assembles from its intermediate values.
DynamicIrrResult(static, sheet, changes, dynamic, static_sens, dynamic_sens) ==
    IF static.status # "returned"
    THEN [NoDynamicIrr EXCEPT !.status = static.status]
    ELSE IF sheet.status # "returned"
    THEN [NoDynamicIrr EXCEPT !.status = sheet.status]
    ELSE IF dynamic.status # "returned"
    THEN [NoDynamicIrr EXCEPT !.status = dynamic.status]
    ELSE [status |-> "returned",
          static_gaps |-> static.gaps,
          static_sensitivity |-> static_sens,
          dynamic_gaps |-> dynamic.gaps,
          dynamic_sensitivity |-> dynamic_sens,
          volume_changes |-> changes.changes,
          comparison |-> _compare_static_vs_dynamic(static.gaps, static_sens,
                                                    dynamic.gaps, dynamic_sens)]

\* Steps 3 and 4 of calculate_dynamic_irr: the gaps and sensitivity of the
\* dynamic balance sheet, and the comparison.
DynamicStep(static, sheet, changes, non_deposits, shocks, calculation_date) ==
    The({The({DynamicIrrResult(static, sheet, changes, dynamic,
                               static_sens, dynamic_sens) :
                 static_sens \in {calculate_sensitivity(static.gaps,
                                                        FirstShock(shocks))},
                 dynamic_sens \in {calculate_sensitivity(dynamic.gaps,
                                                         FirstShock(shocks))}}) :
            dynamic \in {gap_calculator_calculate(
                             ScaleAmounts(non_deposits) \o sheet.new_deposits,
                             calculation_date)}})

\* Steps 1 and 2 of calculate_dynamic_irr on the instruments of the book.
StaticStep(params_dict, filtered, shocks, calculation_date) ==
    The({DynamicStep(static, sheet, changes, NonDeposits(filtered), shocks,
                     calculation_date) :
            static \in {gap_calculator_calculate(ScaleAmounts(filtered),
                                                 calculation_date)},
            sheet \in {create_dynamic_balance_sheet(
                           params_dict, Deposits(filtered), ShocksDict(shocks))},
            changes \in {calculate_volume_changes(
                             params_dict, Deposits(filtered), ShocksDict(shocks))}})

\* DynamicBalanceIRRCalculator.calculate_dynamic_irr.  Both calls of
\* gap_calculator.calculate pass book_filter=None by keyword.
calculate_dynamic_irr(params_dict, insts, shocks, filter, calculation_date) ==
    IF ~Binds(calculate_parameters, 2, {"book_filter"})
    THEN [NoDynamicIrr EXCEPT !.status = "TypeError"]
    ELSE StaticStep(params_dict,
                    IF filter # None THEN InBook(insts, filter[1]) ELSE insts,
                    shocks, calculation_date)

InstrumentUniverse ==
    <<DepositUniverse[1], DepositUniverse[2],
      [Deposit("DEP_006", 600, "RUB", FALSE, Some(60), Some("retail"))
          EXCEPT !.amount_kind = "decimal"],
      Deposit("DEP_007", 300, "RUB", FALSE, None, Some("retail")),
      [InterbankLoan("MBK_001", 1500, "RUB", 20, None)
          EXCEPT !.amount_kind = "decimal"],
      InterbankLoan("MBK_002", -500, "USD", -5, None),
      [InterbankLoan("MBK_003", 700, "RUB", 400, None)
          EXCEPT !.amount_kind = "decimal", !.trading_portfolio = Some(TradingPrefix \o <<"F", "X">>)]>>

RateShocks ==
    {<<>>, <<Shock("RUB", 0)>>, <<Shock("RUB", 0), Shock("USD", 0)>>,
     <<Shock("RUB", 100)>>, <<Shock("RUB", 0), Shock("USD", 200)>>,
     <<Shock("USD", 200), Shock("RUB", -100)>>}

DynParked ==
    /\ dyn_elasticity_params = create_default_elasticity_config
    /\ dyn_instruments = <<>>
    /\ dyn_rate_shocks = <<>>
    /\ book_filter = None
    /\ dynamic_irr = NoDynamicIrr
    /\ dyn_pc = "constructed"

\* DynamicBalanceIRRCalculator.__init__: the elasticity parameters given, or
\* the default configuration.
DynInit ==
    /\ dyn_elasticity_params \in
          {create_default_elasticity_config,
           [key \in {<<"retail", "demand">>} |-> StrongLinear]}
    /\ dyn_instruments = <<>>
    /\ dyn_rate_shocks = <<>>
    /\ book_filter = None
    /\ dynamic_irr = NoDynamicIrr
    /\ dyn_pc = "constructed"

CalculateDynamicIrr ==
    /\ dyn_pc = "constructed"
    /\ \E chosen \in SUBSET DOMAIN InstrumentUniverse,
          shocks \in RateShocks,
          filter \in {None, Some("banking"), Some("trading")} :
        /\ Cardinality(chosen) <= MaxInstruments
        /\ dyn_instruments' = SelectIndices(InstrumentUniverse, chosen, 1)
        /\ dyn_rate_shocks' = shocks
        /\ book_filter' = filter
        /\ dynamic_irr' =
              calculate_dynamic_irr(dyn_elasticity_params,
                                    SelectIndices(InstrumentUniverse, chosen, 1),
                                    shocks, filter, 0)
        /\ dyn_pc' = "called"
    /\ UNCHANGED dyn_elasticity_params

DynNext == CalculateDynamicIrr

---------------------------------------------------------------------------
(* Claims about the DynamicBalanceIRRCalculator *)

AllShocksZero ==
    \A k \in DOMAIN dyn_rate_shocks : dyn_rate_shocks[k].shock = 0

\* C5: when every rate shock passed to calculate_dynamic_irr is zero, the
\* call completes with no deposit volume-change records, and the dynamic gap
\* table equals the static gap table for every currency and bucket.
C5_ZeroShockStaticEqualsDynamic ==
    (dyn_pc = "called" /\ AllShocksZero) =>
        /\ dynamic_irr.status = "returned"
        /\ dynamic_irr.volume_changes = <<>>
        /\ dynamic_irr.dynamic_gaps = dynamic_irr.static_gaps

\* The call with zero shocks on a portfolio of deposits and loans.
C5_Witness ==
    /\ dyn_pc = "called"
    /\ AllShocksZero
    /\ dyn_rate_shocks # <<>>
    /\ \E i \in DOMAIN dyn_instruments : IsDeposit(dyn_instruments[i])

\* No call of calculate_dynamic_irr returns.
C5_NeverReturns == dyn_pc = "called" => dynamic_irr.status = "TypeError"

---------------------------------------------------------------------------
(* ScenarioCalculator *)

\* Objects live in a heap, a sequence addressed by position; a list of
\* instruments is a list of addresses.  The calculator holds the addresses
\* it was constructed with.

\* ScenarioParameters.  interest_rate_shock_bps is a dict from currency to
\* basis points; the two stresses are in per cent.
ScenarioParameters(calculation_date, rate_shocks_bps, runoff_pct, drawdown_pct) ==
    [calculation_date |-> calculation_date,
     interest_rate_shock_bps |-> rate_shocks_bps,
     deposit_runoff_pct |-> runoff_pct,
     credit_line_drawdown_pct |-> drawdown_pct]

NoShocks == [ccy \in {} |-> 0]

\* create_baseline_scenario
create_baseline_scenario(calculation_date) ==
    ScenarioParameters(calculation_date, NoShocks, 0, 0)

\* create_interest_rate_shock_scenario
create_interest_rate_shock_scenario(calculation_date, shock_bps) ==
    ScenarioParameters(calculation_date,
                       [ccy \in {"RUB", "USD", "EUR"} |->
                           IF ccy = "RUB" THEN shock_bps ELSE shock_bps \div 2],
                       0, 0)

\* create_deposit_run_scenario
create_deposit_run_scenario(calculation_date, runoff_pct) ==
    ScenarioParameters(calculation_date, NoShocks, runoff_pct, 0)

\* create_combined_stress_scenario
create_combined_stress_scenario(calculation_date) ==
    ScenarioParameters(calculation_date,
                       [ccy \in {"RUB", "USD", "EUR"} |->
                           IF ccy = "RUB" THEN 300 ELSE 150],
                       30, 50)

Scenarios ==
    {create_baseline_scenario(0),
     create_interest_rate_shock_scenario(0, 200),
     create_deposit_run_scenario(0, 20),
     create_combined_stress_scenario(0),
     ScenarioParameters(0, [ccy \in {"USD"} |-> 100], 0, 50),
     ScenarioParameters(0, NoShocks, 0, 50),
     ScenarioParameters(0, [ccy \in {"RUB", "USD"} |-> 0], 0, 0)}

\* instrument.instrument_type.value
instrument_type(instrument) ==
    CASE instrument.variant = "Deposit" -> "deposit"
      [] instrument.variant = "InterbankLoan" -> "interbank_loan"
      [] instrument.variant = "OffBalanceInstrument" -> "off_balance"

\* An instrument that shares its object with the original.
model_copy_alias(h, a) == [heap |-> h, addr |-> a]

\* instrument.model_copy(deep=True): a new object with the same values.
model_copy(h, a) == [heap |-> Append(h, h[a]), addr |-> Len(h) + 1]

\* A rate shock that takes a missing interest_rate for zero.
ShockRateDefaulting(inst, scenario) ==
    IF /\ DOMAIN scenario.interest_rate_shock_bps # {}
       /\ inst.currency \in DOMAIN scenario.interest_rate_shock_bps
    THEN [inst EXCEPT
             !.interest_rate =
                 IF @ = None
                 THEN Some(scenario.interest_rate_shock_bps[inst.currency])
                 ELSE Some(@[1] + scenario.interest_rate_shock_bps[inst.currency])]
    ELSE inst

\* The interest rate shock of _apply_scenario_stress on one instrument;
\* shock_bps / 10000 is the shock in basis points.
ShockRate(inst, scenario) ==
    IF /\ DOMAIN scenario.interest_rate_shock_bps # {}
       /\ inst.currency \in DOMAIN scenario.interest_rate_shock_bps
       /\ inst.interest_rate # None
    THEN [inst EXCEPT
             !.interest_rate =
                 Some(@[1] + scenario.interest_rate_shock_bps[inst.currency])]
    ELSE inst

\* The deposit runoff: amount * Decimal(runoff_multiplier) raises for a
\* float amount.  The new amount is held to the whole unit.
RunOff(inst, scenario) ==
    IF scenario.deposit_runoff_pct > 0 /\ instrument_type(inst) = "deposit"
    THEN IF inst.amount_kind = "float"
         THEN [status |-> "TypeError", inst |-> inst]
         ELSE [status |-> "returned",
               inst |-> [inst EXCEPT
                            !.amount =
                               (@ * (100 - scenario.deposit_runoff_pct))
                                   \div 100]]
    ELSE [status |-> "returned", inst |-> inst]

\* The credit line drawdown: available_amount * Decimal(...) raises for a
\* float available_amount, utilized_amount += drawdown for a float
\* utilized_amount.
DrawDown(inst, scenario) ==
    IF /\ scenario.credit_line_drawdown_pct > 0
       /\ instrument_type(inst) = "off_balance"
       /\ Truthy(inst.available_amount)
    THEN IF inst.available_kind = "float"
         THEN [status |-> "TypeError", inst |-> inst]
         ELSE IF Truthy(inst.utilized_amount) /\ inst.utilized_kind = "float"
         THEN [status |-> "TypeError", inst |-> inst]
         ELSE [status |-> "returned",
               inst |->
                 [inst EXCEPT
                    !.utilized_amount =
                        IF Truthy(@)
                        THEN Some(@[1] + (inst.available_amount[1]
                                            * scenario.credit_line_drawdown_pct)
                                               \div 100)
                        ELSE Some((inst.available_amount[1]
                                     * scenario.credit_line_drawdown_pct)
                                        \div 100),
                    !.utilized_kind = "decimal",
                    !.available_amount =
                        Some(@[1] - (@[1] * scenario.credit_line_drawdown_pct)
                                       \div 100)]]
    ELSE [status |-> "returned", inst |-> inst]

\* The body of the loop of _apply_scenario_stress on the object at address
\* a: each stress is written to the object as soon as it is computed.
StressObject(h, a, scenario) ==
    The({The({IF run.status # "returned"
              THEN [status |-> run.status, heap |-> [h EXCEPT ![a] = run.inst]]
              ELSE [status |-> drawn.status,
                    heap |-> [h EXCEPT ![a] = drawn.inst]] :
                 drawn \in {DrawDown(run.inst, scenario)}}) :
            run \in {RunOff(ShockRate(h[a], scenario), scenario)}})

\* _apply_scenario_stress from the i-th instrument on.
RECURSIVE StressFrom(_, _, _, _, _)
StressFrom(h, instruments, scenario, stressed, i) ==
    IF i > Len(instruments)
    THEN [status |-> "returned", heap |-> h, stressed |-> stressed]
    ELSE The({The({IF one.status # "returned"
                   THEN [status |-> one.status, heap |-> one.heap,
                         stressed |-> stressed]
                   ELSE StressFrom(one.heap, instruments, scenario,
                                   Append(stressed, copy.addr), i + 1) :
                      one \in {StressObject(copy.heap, copy.addr, scenario)}}) :
                 copy \in {model_copy(h, instruments[i])}})

\* ScenarioCalculator._apply_scenario_stress
_apply_scenario_stress(h, instruments, scenario) ==
    StressFrom(h, instruments, scenario, <<>>, 1)

\* ScenarioCalculator._calculate_risk_contributions: an instrument whose
\* contribution raises is logged and skipped.
_calculate_risk_contributions(h, instruments, calculation_date) ==
    The({[j \in 1..Len(SelectIndices(outcomes,
                                     {i \in DOMAIN outcomes :
                                         outcomes[i].status = "returned"}, 1)) |->
             SelectIndices(outcomes,
                           {i \in DOMAIN outcomes :
                               outcomes[i].status = "returned"}, 1)[j].contribution] :
            outcomes \in {[i \in DOMAIN instruments |->
                              calculate_risk_contribution(h[instruments[i]],
                                                          calculation_date)]}})

NoScenarioResult ==
    [status |-> "none", aggregate |-> NotAggregated, risk_contributions |-> <<>>]

\* Steps 2 and 3 of calculate_scenario.
ScenarioResult(h, stressed, scenario) ==
    The({The({[status |-> aggregate.status, aggregate |-> aggregate,
               risk_contributions |->
                   IF aggregate.status = "returned" THEN risk_contributions
                   ELSE <<>>] :
                 aggregate \in {_aggregate_risks(risk_contributions,
                                                 scenario.calculation_date)}}) :
            risk_contributions \in
                {_calculate_risk_contributions(h, stressed,
                                               scenario.calculation_date)}})

\* The objects still referenced when a call starts: the copies of the call
\* before are not.
Referenced(h, instruments) ==
    SubSeq(h, 1, Len(instruments))

\* ScenarioCalculator.calculate_scenario on the heap h
calculate_scenario(h, instruments, scenario) ==
    The({IF applied.status # "returned"
         THEN [heap |-> applied.heap, stressed |-> applied.stressed,
               result |-> [NoScenarioResult EXCEPT !.status = applied.status]]
         ELSE [heap |-> applied.heap, stressed |-> applied.stressed,
               result |-> ScenarioResult(applied.heap, applied.stressed,
                                         scenario)] :
            applied \in {_apply_scenario_stress(Referenced(h, instruments),
                                                instruments, scenario)}})

\* ScenarioCalculator.compare_scenarios from the i-th scenario on: a
\* scenario that raises ends the comparison.
RECURSIVE CompareFrom(_, _, _, _, _, _)
CompareFrom(h, instruments, scenarios, stressed, results, i) ==
    IF i > Len(scenarios)
    THEN [heap |-> h, stressed |-> stressed, results |-> results]
    ELSE The({IF out.result.status # "returned"
              THEN [heap |-> out.heap, stressed |-> out.stressed,
                    results |-> Append(results, out.result)]
              ELSE CompareFrom(out.heap, instruments, scenarios, out.stressed,
                               Append(results, out.result), i + 1) :
                 out \in {calculate_scenario(h, instruments, scenarios[i])}})

\* ScenarioCalculator.compare_scenarios
compare_scenarios(h, instruments, scenarios) ==
    CompareFrom(h, instruments, scenarios, <<>>, <<>>, 1)

\* The instruments a calculator is constructed with.  Amounts are whole
\* hundreds, so that the stresses of the scenarios give whole numbers.
ScenarioUniverse ==
    <<[Deposit("DEP_101", 1000, "RUB", TRUE, None, Some("retail"))
          EXCEPT !.interest_rate = Some(500)],
      [Deposit("DEP_102", 400, "RUB", FALSE, Some(60), Some("retail"))
          EXCEPT !.amount_kind = "decimal"],
      [Deposit("DEP_103", 200, "USD", TRUE, None, Some("corporate"))
          EXCEPT !.amount_kind = "decimal", !.interest_rate = Some(300)],
      [InterbankLoan("MBK_101", 1500, "RUB", -5, None)
          EXCEPT !.interest_rate = Some(400)],
      OffBalanceInstrument("OFF_101", 1000, "RUB", Some(600), Some(400)),
      [OffBalanceInstrument("OFF_102", 1000, "USD", Some(600), None)
          EXCEPT !.available_kind = "decimal"],
      [OffBalanceInstrument("OFF_103", 800, "RUB", Some(600), Some(200))
          EXCEPT !.available_kind = "decimal", !.utilized_kind = "decimal",
                 !.interest_rate = Some(600)]>>

ScenParked ==
    /\ heap = <<>>
    /\ scen_instruments = <<>>
    /\ stressed_instruments = <<>>
    /\ scenarios_run = <<>>
    /\ scenario_results = <<>>
    /\ scen_calls = 0

\* ScenarioCalculator.__init__: the calculator keeps the list it is given.
ScenInit ==
    /\ \E chosen \in SUBSET DOMAIN ScenarioUniverse :
          /\ Cardinality(chosen) <= MaxHeld
          /\ heap = SelectIndices(ScenarioUniverse, chosen, 1)
          /\ scen_instruments = [i \in 1..Cardinality(chosen) |-> i]
    /\ stressed_instruments = <<>>
    /\ scenarios_run = <<>>
    /\ scenario_results = <<>>
    /\ scen_calls = 0

CalculateScenario(scenario) ==
    /\ scen_calls < MaxCalls
    /\ \E out \in {calculate_scenario(heap, scen_instruments, scenario)} :
          /\ heap' = out.heap
          /\ stressed_instruments' = out.stressed
          /\ scenario_results' = <<out.result>>
    /\ scenarios_run' = <<scenario>>
    /\ scen_calls' = scen_calls + 1
    /\ UNCHANGED scen_instruments

CompareScenarios(first, second) ==
    /\ scen_calls + 2 <= MaxCalls
    /\ \E out \in {compare_scenarios(heap, scen_instruments, <<first, second>>)} :
          /\ heap' = out.heap
          /\ stressed_instruments' = out.stressed
          /\ scenario_results' = out.results
          /\ scen_calls' = scen_calls + Len(out.results)
    /\ scenarios_run' = <<first, second>>
    /\ UNCHANGED scen_instruments

ScenNext ==
    \/ \E scenario \in Scenarios : CalculateScenario(scenario)
    \/ \E first, second \in Scenarios : CompareScenarios(first, second)

---------------------------------------------------------------------------
(* Claims about the ScenarioCalculator *)

\* The values of the instruments the calculator holds.
Held(h, instruments) == [i \in DOMAIN instruments |-> h[instruments[i]]]

\* C6: running calculate_scenario, for any scenario and any number of times
\* in sequence, leaves every instrument the calculator holds unchanged: the
\* calculator holds the same objects, and each has the same values
\* (interest_rate, amount, available_amount, utilized_amount and every other
\* field) after the call as before it.
C6_InstrumentsUnchanged ==
    [][/\ scen_instruments' = scen_instruments
       /\ Held(heap', scen_instruments') = Held(heap, scen_instruments)]_vars

\* A second or later call has stressed a copy of every held instrument: the
\* rate, the amount and the credit line amounts of the copies differ from
\* the originals.
C6_Witness ==
    /\ scen_calls >= 2
    /\ scenario_results # <<>>
    /\ Len(stressed_instruments) = Len(scen_instruments)
    /\ \E i, j, k \in DOMAIN scen_instruments :
          /\ heap[stressed_instruments[i]].interest_rate
                # heap[scen_instruments[i]].interest_rate
          /\ heap[stressed_instruments[j]].amount
                # heap[scen_instruments[j]].amount
          /\ instrument_type(heap[scen_instruments[k]]) = "off_balance"
          /\ heap[stressed_instruments[k]].utilized_amount
                # heap[scen_instruments[k]].utilized_amount
          /\ heap[stressed_instruments[k]].available_amount
                # heap[scen_instruments[k]].available_amount

---------------------------------------------------------------------------
(* BehavioralAssumptionsManager *)

\* A dict is a function from its keys.  A value that may be None is an
\* optional value.  stable_portion and the elasticities are held in tenths,
\* the runoff rates in hundredths.

\* dict.get(key): None where the key is missing.
dict_get(d, key) == IF key \in DOMAIN d THEN d[key] ELSE None

\* One entry of AssumptionRule.conditions.  kind is the Python type of the
\* condition value: "list", "dict" or "value".
Condition(key, kind, value) == [key |-> key, kind |-> kind, value |-> value]

\* One entry of a comparator dict.
Comparator(operator, threshold) == [operator |-> operator, threshold |-> threshold]

\* AssumptionRule.  conditions keeps the insertion order of the dict.
AssumptionRule(rule_id, priority, conditions, assumptions, active) ==
    [rule_id |-> rule_id, priority |-> priority, conditions |-> conditions,
     assumptions |-> assumptions, active |-> active]

\* The result of a call that may raise.
Returned(value) == [status |-> "returned", value |-> value]

Raising(exception) == [status |-> exception, value |-> FALSE]

\* AssumptionRule._check_dict_condition from the i-th operator on.  An
\* ordering comparison of None with a number raises TypeError.
RECURSIVE CheckFrom(_, _, _)
CheckFrom(value, condition, i) ==
    IF i > Len(condition) THEN Returned(TRUE)
    ELSE IF condition[i].operator \in {">=", "<=", ">", "<"}
    THEN IF value = None THEN Raising("TypeError")
         ELSE IF CASE condition[i].operator = ">=" ->
                         value[1] >= condition[i].threshold
                   [] condition[i].operator = "<=" ->
                         value[1] <= condition[i].threshold
                   [] condition[i].operator = ">" ->
                         value[1] > condition[i].threshold
                   [] condition[i].operator = "<" ->
                         value[1] < condition[i].threshold
         THEN CheckFrom(value, condition, i + 1)
         ELSE Returned(FALSE)
    ELSE IF condition[i].operator = "in"
    THEN IF value \notin condition[i].threshold THEN Returned(FALSE)
         ELSE CheckFrom(value, condition, i + 1)
    ELSE IF condition[i].operator = "not_in"
    THEN IF value \in condition[i].threshold THEN Returned(FALSE)
         ELSE CheckFrom(value, condition, i + 1)
    ELSE CheckFrom(value, condition, i + 1)

\* AssumptionRule._check_dict_condition
_check_dict_condition(value, condition) == CheckFrom(value, condition, 1)

\* The loop of AssumptionRule.matches from the i-th condition on.
RECURSIVE MatchFrom(_, _, _)
MatchFrom(rule, data, i) ==
    IF i > Len(rule.conditions) THEN Returned(TRUE)
    ELSE IF rule.conditions[i].kind = "list"
    THEN IF dict_get(data, rule.conditions[i].key) \notin rule.conditions[i].value
         THEN Returned(FALSE)
         ELSE MatchFrom(rule, data, i + 1)
    ELSE IF rule.conditions[i].kind = "dict"
    THEN The({IF checked.status # "returned" THEN checked
              ELSE IF ~checked.value THEN Returned(FALSE)
              ELSE MatchFrom(rule, data, i + 1) :
                 checked \in {_check_dict_condition(
                                  dict_get(data, rule.conditions[i].key),
                                  rule.conditions[i].value)}})
    ELSE IF dict_get(data, rule.conditions[i].key) # rule.conditions[i].value
         THEN Returned(FALSE)
         ELSE MatchFrom(rule, data, i + 1)

\* AssumptionRule.matches
matches(rule, data) ==
    IF ~rule.active THEN Returned(FALSE) ELSE MatchFrom(rule, data, 1)

\* list.sort(key=lambda r: r.priority, reverse=True): the sort is stable,
\* rules of equal priority keep their order.  Insert places a rule into a
\* sorted list behind the rules of the same or a higher priority.
RECURSIVE Insert(_, _)
Insert(sorted, rule) ==
    IF sorted = <<>> THEN <<rule>>
    ELSE IF sorted[1].priority >= rule.priority
    THEN <<sorted[1]>> \o Insert(Tail(sorted), rule)
    ELSE <<rule>> \o sorted

RECURSIVE SortByPriority(_, _)
SortByPriority(list, n) ==
    IF n = 0 THEN <<>>
    ELSE Insert(SortByPriority(list, n - 1), list[n])

\* BehavioralAssumptionsManager.add_rule
add_rule(list, rule) == SortByPriority(Append(list, rule), Len(list) + 1)

\* CounterpartyAssumption with every optional field None and every flag
\* False.
CounterpartyAssumption(counterparty_name) ==
    [counterparty_name |-> counterparty_name, stable_portion |-> None,
     avg_life_days |-> None, runoff_rates |-> None, minimum_balance |-> None,
     maximum_outflow |-> None, early_withdrawal_probability |-> None,
     early_withdrawal_portion |-> None, overnight_treatment |-> FALSE,
     full_outflow |-> FALSE, elasticity_enabled |-> FALSE,
     base_elasticity |-> None, elasticity_asymmetric |-> FALSE,
     elasticity_positive_shock |-> None, elasticity_negative_shock |-> None,
     elasticity_threshold |-> None, elasticity_adjustment_speed |-> None,
     elasticity_max_change |-> None]

\* The entries _counterparty_assumption_to_dict may write, each None where
\* it does not write it.
CounterpartyEntries(cp) ==
    [stable_portion |-> cp.stable_portion,
     avg_life_days |-> cp.avg_life_days,
     runoff_rates |-> cp.runoff_rates,
     minimum_balance |-> cp.minimum_balance,
     maximum_outflow |-> cp.maximum_outflow,
     early_withdrawal_probability |-> cp.early_withdrawal_probability,
     early_withdrawal_portion |-> cp.early_withdrawal_portion,
     maturity_override |-> IF cp.overnight_treatment THEN Some(1) ELSE None,
     runoff_override |-> IF cp.full_outflow THEN Some(10) ELSE None,
     elasticity_enabled |-> IF cp.elasticity_enabled THEN Some(TRUE) ELSE None,
     base_elasticity |->
         IF cp.elasticity_enabled THEN cp.base_elasticity ELSE None,
     elasticity_asymmetric |->
         IF cp.elasticity_enabled /\ cp.elasticity_asymmetric
         THEN Some(TRUE) ELSE None,
     elasticity_positive_shock |->
         IF cp.elasticity_enabled /\ cp.elasticity_asymmetric
         THEN cp.elasticity_positive_shock ELSE None,
     elasticity_negative_shock |->
         IF cp.elasticity_enabled /\ cp.elasticity_asymmetric
         THEN cp.elasticity_negative_shock ELSE None,
     elasticity_threshold |->
         IF cp.elasticity_enabled THEN cp.elasticity_threshold ELSE None,
     elasticity_adjustment_speed |->
         IF cp.elasticity_enabled THEN cp.elasticity_adjustment_speed ELSE None,
     elasticity_max_change |->
         IF cp.elasticity_enabled THEN cp.elasticity_max_change ELSE None]

\* BehavioralAssumptionsManager._counterparty_assumption_to_dict
_counterparty_assumption_to_dict(cp) ==
    [key \in {k \in DOMAIN CounterpartyEntries(cp) :
                 CounterpartyEntries(cp)[k] # None} |->
        CounterpartyEntries(cp)[key][1]]

NoAssumptions == [key \in {} |-> 0]

\* 'deposit' in instrument_class.lower() and 'current' in
\* instrument_class.lower(), for the classes of the records.
ClassContains(instrument_class, token) ==
    CASE instrument_class = "deposit" -> token = "deposit"
      [] instrument_class = "Term Deposit" -> token = "deposit"
      [] instrument_class = "current_account" -> token = "current"
      [] OTHER -> FALSE

RunoffRates(name, market, combo) ==
    [NAME |-> name, MARKET |-> market, COMBO |-> combo]

\* BehavioralAssumptionsManager._get_default_assumptions.  A record whose
\* instrument_class is None has no lower().
_get_default_assumptions(data) ==
    IF "instrument_class" \in DOMAIN data /\ data["instrument_class"] = None
    THEN [status |-> "AttributeError", value |-> NoAssumptions]
    ELSE IF /\ "instrument_class" \in DOMAIN data
            /\ ClassContains(data["instrument_class"][1], "deposit")
            /\ dict_get(data, "counterparty_type") = Some("retail")
    THEN Returned([stable_portion |-> 6, avg_life_days |-> 180,
                   runoff_rates |->
                       RunoffRates([overnight |-> 5, b2_7d |-> 10, b8_30d |-> 15],
                                   [overnight |-> 10, b2_7d |-> 15, b8_30d |-> 20],
                                   [overnight |-> 15, b2_7d |-> 20, b8_30d |-> 25])])
    ELSE IF /\ "instrument_class" \in DOMAIN data
            /\ ClassContains(data["instrument_class"][1], "deposit")
            /\ dict_get(data, "counterparty_type") = Some("corporate")
    THEN Returned([stable_portion |-> 4, avg_life_days |-> 90,
                   runoff_rates |->
                       RunoffRates([overnight |-> 10, b2_7d |-> 15, b8_30d |-> 20],
                                   [overnight |-> 20, b2_7d |-> 25, b8_30d |-> 30],
                                   [overnight |-> 30, b2_7d |-> 35, b8_30d |-> 40])])
    ELSE IF /\ "instrument_class" \in DOMAIN data
            /\ ClassContains(data["instrument_class"][1], "current")
    THEN Returned([stable_portion |-> 3, avg_life_days |-> 30,
                   runoff_rates |->
                       RunoffRates([overnight |-> 20, b2_7d |-> 30],
                                   [overnight |-> 30, b2_7d |-> 40],
                                   [overnight |-> 40, b2_7d |-> 50])])
    ELSE Returned(NoAssumptions)

\* The loop of get_assumptions_for_instrument over the rules from the i-th
\* on, and the defaults behind it.
RECURSIVE FirstMatch(_, _, _)
FirstMatch(list, data, i) ==
    IF i > Len(list) THEN _get_default_assumptions(data)
    ELSE The({IF matched.status # "returned"
              THEN [status |-> matched.status, value |-> NoAssumptions]
              ELSE IF matched.value THEN Returned(list[i].assumptions)
              ELSE FirstMatch(list, data, i + 1) :
                 matched \in {matches(list[i], data)}})

\* if counterparty_name and counterparty_name in self.counterparty_assumptions
HasCounterpartyAssumption(table, data) ==
    /\ dict_get(data, "counterparty_name") # None
    /\ dict_get(data, "counterparty_name")[1] # ""
    /\ dict_get(data, "counterparty_name")[1] \in DOMAIN table

\* BehavioralAssumptionsManager.get_assumptions_for_instrument
get_assumptions_for_instrument(list, table, data) ==
    IF HasCounterpartyAssumption(table, data)
    THEN Returned(_counterparty_assumption_to_dict(
                      table[dict_get(data, "counterparty_name")[1]]))
    ELSE FirstMatch(list, data, 1)

\* The rules given to add_rule.
RuleUniverse ==
    {AssumptionRule("retail", 100,
                    <<Condition("counterparty_type", "value", Some("retail"))>>,
                    [stable_portion |-> 9], TRUE),
     AssumptionRule("large", 50,
                    <<Condition("amount", "dict", <<Comparator(">=", 100)>>)>>,
                    [stable_portion |-> 5], TRUE),
     AssumptionRule("fx_deposit", 50,
                    <<Condition("currency", "list", {Some("USD"), Some("EUR")}),
                      Condition("instrument_class", "value", Some("deposit"))>>,
                    [stable_portion |-> 7], TRUE),
     AssumptionRule("rub_medium", 70,
                    <<Condition("currency", "value", Some("RUB")),
                      Condition("amount", "dict",
                                <<Comparator(">", 100), Comparator("<=", 500)>>)>>,
                    [stable_portion |-> 8], TRUE),
     AssumptionRule("any", 10, <<>>, [stable_portion |-> 2], TRUE),
     AssumptionRule("switched_off", 200, <<>>, [stable_portion |-> 1], FALSE)}

\* The records given to add_counterparty_assumption.
CounterpartyUniverse(name) ==
    {[CounterpartyAssumption(name) EXCEPT
         !.stable_portion = Some(8), !.overnight_treatment = TRUE,
         !.base_elasticity = Some(3)],
     [CounterpartyAssumption(name) EXCEPT
         !.full_outflow = TRUE, !.elasticity_enabled = TRUE,
         !.elasticity_asymmetric = TRUE, !.elasticity_positive_shock = Some(4),
         !.elasticity_max_change = Some(2)]}

CounterpartyNames == {"", "Gazprom"}

\* A field of a record: missing (<<>>), or present with a value that may be
\* None.
Missing == <<>>

Present(value) == <<value>>

\* The instrument records given to the resolver.
InstrumentRecord(fields) ==
    [key \in {k \in DOMAIN fields : fields[k] # Missing} |-> fields[key][1]]

InstrumentRecords ==
    {InstrumentRecord([counterparty_name |-> name, counterparty_type |-> ctype,
                       instrument_class |-> class, amount |-> amount,
                       currency |-> currency]) :
        name \in {Missing, Present(Some("")), Present(Some("Gazprom"))},
        ctype \in {Missing, Present(Some("retail"))},
        class \in {Missing, Present(None), Present(Some("deposit"))},
        amount \in {Missing, Present(Some(50)), Present(Some(500))},
        currency \in {Present(Some("RUB")), Present(Some("USD"))}}

NoRecord == [key \in {} |-> None]

NoResolution == [status |-> "none", value |-> NoAssumptions]

ResolverParked ==
    /\ rules = <<>>
    /\ counterparty_assumptions = [name \in {} |-> CounterpartyAssumption(name)]
    /\ instrument_data = NoRecord
    /\ resolution = NoResolution

\* BehavioralAssumptionsManager.__init__
ResolverInit ==
    /\ rules = <<>>
    /\ counterparty_assumptions = [name \in {} |-> CounterpartyAssumption(name)]
    /\ instrument_data = NoRecord
    /\ resolution = NoResolution

\* add_rule returns nothing.
AddRule(rule) ==
    /\ Len(rules) < MaxRules
    /\ \A i \in DOMAIN rules : rules[i].rule_id # rule.rule_id
    /\ rules' = add_rule(rules, rule)
    /\ instrument_data' = NoRecord
    /\ resolution' = NoResolution
    /\ UNCHANGED counterparty_assumptions

\* add_counterparty_assumption returns nothing.
AddCounterpartyAssumption(name, assumption) ==
    /\ Cardinality(DOMAIN counterparty_assumptions \cup {name}) <= MaxCounterparties
    /\ counterparty_assumptions' =
          [n \in DOMAIN counterparty_assumptions \cup {name} |->
              IF n = name THEN assumption ELSE counterparty_assumptions[n]]
    /\ instrument_data' = NoRecord
    /\ resolution' = NoResolution
    /\ UNCHANGED rules

\* get_assumptions_for_instrument: resolution holds what the call returns
\* or raises.
Resolve(data) ==
    /\ instrument_data' = data
    /\ resolution' = get_assumptions_for_instrument(
                         rules, counterparty_assumptions, data)
    /\ UNCHANGED <<rules, counterparty_assumptions>>

ResolverNext ==
    \/ \E rule \in RuleUniverse : AddRule(rule)
    \/ \E name \in CounterpartyNames :
          \E assumption \in CounterpartyUniverse(name) :
             AddCounterpartyAssumption(name, assumption)
    \/ \E data \in InstrumentRecords : Resolve(data)

---------------------------------------------------------------------------
(* Claims about the BehavioralAssumptionsManager *)

\* The last call was a resolution.
Resolved == resolution.status # "none"

\* The counterparty name of the record is a key of the counterparty table.
NameInTable ==
    /\ dict_get(instrument_data, "counterparty_name") # None
    /\ dict_get(instrument_data, "counterparty_name")[1]
          \in DOMAIN counterparty_assumptions

\* The rule is active and every one of its conditions matches the record.
Selectable(rule) ==
    rule.active /\ matches(rule, instrument_data) = Returned(TRUE)

\* The resolution returned the assumptions of a selectable rule of the
\* highest priority among the selectable rules.
ReturnedHighestPriority ==
    /\ resolution.status = "returned"
    /\ \E i \in DOMAIN rules :
          /\ Selectable(rules[i])
          /\ \A j \in DOMAIN rules :
                Selectable(rules[j]) => rules[j].priority <= rules[i].priority
          /\ resolution.value = rules[i].assumptions

\* C7: after any sequence of add_rule calls, when the counterparty name of
\* the record is not in the counterparty table and some rule is active with
\* all its conditions matching, the resolution returns the assumptions of
\* the highest-priority such rule, never those of an inactive rule or of a
\* rule with a condition that does not match.
C7_HighestPriorityRule ==
    (Resolved /\ ~NameInTable /\ \E i \in DOMAIN rules : Selectable(rules[i]))
        => ReturnedHighestPriority

\* Where the resolution returns at all, it returns the assumptions of the
\* highest-priority selectable rule.
C7_HighestPriorityWhenReturned ==
    (/\ resolution.status = "returned"
     /\ ~NameInTable
     /\ \E i \in DOMAIN rules : Selectable(rules[i]))
        => ReturnedHighestPriority

\* Two rules are selectable, and the one added last has the higher priority.
C7_Witness ==
    /\ resolution.status = "returned"
    /\ ~NameInTable
    /\ Len(rules) = 2
    /\ Selectable(rules[1]) /\ Selectable(rules[2])
    /\ rules[1].priority > rules[2].priority
    /\ resolution.value = rules[1].assumptions

\* C8: whenever the counterparty name of the record is a key of the
\* counterparty table, the resolution returns the map materialised from
\* that counterparty's record, whatever rules exist, are active or match.
C8_CounterpartyOverride ==
    (Resolved /\ NameInTable)
        => resolution =
              Returned(_counterparty_assumption_to_dict(
                           counterparty_assumptions[
                               dict_get(instrument_data, "counterparty_name")[1]]))

\* The same for the names that are not the empty string.
C8_NonEmptyNameOverride ==
    (/\ Resolved
     /\ NameInTable
     /\ dict_get(instrument_data, "counterparty_name") # Some(""))
        => resolution =
              Returned(_counterparty_assumption_to_dict(
                           counterparty_assumptions[
                               dict_get(instrument_data, "counterparty_name")[1]]))

\* A record of a counterparty of the table was resolved while a rule
\* matched it.
C8_Witness ==
    /\ Resolved
    /\ NameInTable
    /\ dict_get(instrument_data, "counterparty_name") # Some("")
    /\ \E i \in DOMAIN rules : Selectable(rules[i])
    /\ "maturity_override" \in DOMAIN resolution.value

\* C9: for every instrument record, with missing or null fields too, and
\* every rule set, with comparator conditions too, the resolution completes
\* without raising and returns a map.
C9_ResolutionTotal ==
    Resolved => resolution.status = "returned"

\* A resolution raises only on a comparator condition over a missing field
\* or on the defaults of a record whose instrument_class is None.
C9_RaisesOnlyOnNone ==
    (Resolved /\ resolution.status # "returned")
        => \/ /\ resolution.status = "TypeError"
              /\ "amount" \notin DOMAIN instrument_data
              /\ \E i \in DOMAIN rules :
                    \E c \in DOMAIN rules[i].conditions :
                       rules[i].conditions[c].kind = "dict"
           \/ /\ resolution.status = "AttributeError"
              /\ dict_get(instrument_data, "instrument_class") = None
              /\ "instrument_class" \in DOMAIN instrument_data

---------------------------------------------------------------------------
(* Risk contributions of single instruments *)

\* The instruments calculate_risk_contribution is called on: deposits and
\* interbank loans as constructed (float amounts) and with Decimal amounts
\* assigned, and off-balance credit lines.
ContributionInstruments ==
    {[Deposit("DEP", amt, ccy, demand, maturity, Some("retail"))
         EXCEPT !.amount_kind = kind, !.interest_rate = rate,
                !.core_portion = core] :
        amt \in {600, -200}, ccy \in {"RUB", "USD"}, demand \in BOOLEAN,
        maturity \in {None, Some(-5), Some(60)}, kind \in {"float", "decimal"},
        rate \in {None, Some(500)}, core \in {None, Some(6)}}
    \cup
    {[InterbankLoan("MBK", amt, "RUB", maturity, placement)
         EXCEPT !.amount_kind = kind, !.interest_rate = rate] :
        amt \in {1500, -500}, maturity \in {-5, 20},
        placement \in {None, Some(TRUE), Some(FALSE)}, kind \in {"float", "decimal"},
        rate \in {None, Some(400)}}
    \cup
    {OffBalanceInstrument("OFF", 1000, "RUB", available, None) :
        available \in {None, Some(600)}}

NotCalculated == [status |-> "none", contribution |-> NoContribution]

ContribParked ==
    /\ contrib_instrument = None
    /\ contrib_outcome = NotCalculated

ContribInit ==
    /\ contrib_instrument = None
    /\ contrib_outcome = NotCalculated

\* instrument.calculate_risk_contribution(calculation_date, risk_params)
CalculateRiskContribution(instrument) ==
    /\ contrib_instrument' = Some(instrument)
    /\ contrib_outcome' = calculate_risk_contribution(instrument, 0)

ContribNext ==
    \E instrument \in ContributionInstruments :
        CalculateRiskContribution(instrument)

---------------------------------------------------------------------------
(* Claims about the risk contributions *)

Sign(x) == IF x > 0 THEN 1 ELSE IF x < 0 THEN -1 ELSE 0

\* The value of largest magnitude in a non-empty currency_exposure.
DominantExposure(contrib) ==
    contrib.currency_exposure[
        CHOOSE l \in DOMAIN contrib.currency_exposure :
            \A other \in DOMAIN contrib.currency_exposure :
                Abs(contrib.currency_exposure[l].exposure)
                    >= Abs(contrib.currency_exposure[other].exposure)].exposure

SignConsistent(contrib) ==
    (contrib.repricing_amount # 0 /\ contrib.currency_exposure # <<>>)
        => Sign(contrib.repricing_amount) = Sign(DominantExposure(contrib))

\* C10: for every instrument of every variant, the repricing_amount of its
\* contribution, when it is not zero, has the sign of the value of largest
\* magnitude in its currency_exposure.
C10_SignConsistency ==
    contrib_outcome.status = "returned"
        => SignConsistent(contrib_outcome.contribution)

\* The contribution of an interbank placement is sign-consistent; that of a
\* deposit or of an interbank borrowing with a non-zero amount has a
\* repricing_amount of the sign opposite to its exposure.
C10_SignByVariant ==
    (contrib_outcome.status = "returned" /\ contrib_instrument # None)
        => IF contrib_instrument[1].variant = "OffBalanceInstrument"
           THEN contrib_outcome.contribution.repricing_amount = 0
           ELSE IF /\ contrib_instrument[1].variant = "InterbankLoan"
                   /\ contrib_instrument[1].is_placement
           THEN SignConsistent(contrib_outcome.contribution)
           ELSE Sign(contrib_outcome.contribution.repricing_amount)
                   = -Sign(DominantExposure(contrib_outcome.contribution))

\* A deposit as constructed and an interbank placement each returned a
\* contribution with a non-zero repricing_amount.
C10_Witness ==
    /\ contrib_outcome.status = "returned"
    /\ contrib_instrument # None
    /\ contrib_instrument[1].variant = "InterbankLoan"
    /\ contrib_instrument[1].is_placement
    /\ contrib_outcome.contribution.repricing_amount # 0

---------------------------------------------------------------------------
(* The liquidity bucket mapper *)

\* The nine liquidity buckets of ScenarioCalculator.liquidity_buckets.
liquidity_buckets ==
    {"overnight", "2-7d", "8-14d", "15-30d", "30-90d", "90-180d",
     "180-365d", "1-2y", "2y+"}

NotAssigned == "none"

BucketParked ==
    /\ bucket_base_date = 0
    /\ bucket_target_date = 0
    /\ assigned_bucket = NotAssigned

BucketInit ==
    /\ bucket_base_date = 0
    /\ bucket_target_date = 0
    /\ assigned_bucket = NotAssigned

\* bucket = assign_to_bucket(calculation_date, cf_date, liquidity_buckets)
AssignToBucket(calculation_date, cf_date) ==
    /\ bucket_base_date' = calculation_date
    /\ bucket_target_date' = cf_date
    /\ assigned_bucket' = assign_to_bucket(calculation_date, cf_date)

\* The day differences tried: every bound of a bucket, the day before it
\* and the day after it.
BucketEdges ==
    UNION {{edge - 1, edge, edge + 1} :
              edge \in {0, 1, 7, 14, 30, 90, 180, 365, 730}}

BucketNext ==
    \E calculation_date \in 0 .. MaxBaseDate, days \in BucketEdges :
        AssignToBucket(calculation_date, calculation_date + days)

---------------------------------------------------------------------------
(* Claims about the liquidity bucket mapper *)

\* The bucket the inclusive upper bounds select for a day difference.
CanonicalBucket(d) ==
    IF d <= 1 THEN "overnight"
    ELSE IF d <= 7 THEN "2-7d"
    ELSE IF d <= 14 THEN "8-14d"
    ELSE IF d <= 30 THEN "15-30d"
    ELSE IF d <= 90 THEN "30-90d"
    ELSE IF d <= 180 THEN "90-180d"
    ELSE IF d <= 365 THEN "180-365d"
    ELSE IF d <= 730 THEN "1-2y"
    ELSE "2y+"

\* C11: for every pair of dates the mapper returns one of the nine liquidity
\* buckets, the one whose inclusive upper bound is the first to hold the day
\* difference (overnight up to 1 day, 2-7d up to 7, 8-14d up to 14, 15-30d up
\* to 30, 30-90d up to 90, 90-180d up to 180, 180-365d up to 365, 1-2y up to
\* 730, 2y+ beyond).
C11_CanonicalBucket ==
    assigned_bucket # NotAssigned =>
        /\ assigned_bucket \in liquidity_buckets
        /\ assigned_bucket = CanonicalBucket(bucket_target_date - bucket_base_date)

\* What the mapper does return: the canonical bucket beyond 30 days and for
\* non-positive differences, overnight only up to 0 days, and the name 0-30d,
\* which is no liquidity bucket, for 1 to 30 days.
C11_BucketBeyondThirtyDays ==
    LET d == bucket_target_date - bucket_base_date
    IN assigned_bucket # NotAssigned =>
        /\ (d > 30 \/ d <= 0) => assigned_bucket = CanonicalBucket(d)
        /\ (d \in 1 .. 30) => assigned_bucket = "0-30d"

C11_Witness ==
    /\ assigned_bucket = "0-30d"
    /\ bucket_target_date - bucket_base_date = 7

---------------------------------------------------------------------------
(* The IRR gap calculator on its own *)

\* The instruments the gap calculator is given: deposits and interbank
\* loans whose repricing dates lie before, on and after the calculation
\* date, with Decimal amounts and with float amounts.
GapUniverse ==
    <<[Deposit("DEP_201", 600, "RUB", FALSE, Some(-5), Some("retail"))
          EXCEPT !.amount_kind = "decimal"],
      [Deposit("DEP_202", 400, "RUB", FALSE, Some(60), Some("retail"))
          EXCEPT !.amount_kind = "decimal"],
      [Deposit("DEP_203", 200, "USD", TRUE, None, Some("retail"))
          EXCEPT !.amount_kind = "decimal"],
      [InterbankLoan("MBK_201", 1500, "RUB", -5, None)
          EXCEPT !.amount_kind = "decimal"],
      [InterbankLoan("MBK_202", 700, "RUB", 0, None)
          EXCEPT !.amount_kind = "decimal"],
      [InterbankLoan("MBK_203", -500, "USD", 20, None)
          EXCEPT !.amount_kind = "decimal"],
      [InterbankLoan("MBK_204", 900, "USD", -1, None)
          EXCEPT !.amount_kind = "decimal"],
      InterbankLoan("MBK_205", 300, "RUB", -5, None),
      [InterbankLoan("MBK_206", -200, "RUB", 100, None)
          EXCEPT !.amount_kind = "decimal"]>>

NoGaps == [status |-> "none", gaps |-> NoTable]

GapParked ==
    /\ gap_instruments = <<>>
    /\ gap_tables = NoGaps

GapInit ==
    /\ gap_instruments = <<>>
    /\ gap_tables = NoGaps

\* CurrencyInterestRateGapCalculator.calculate on a list of instruments
CalculateGaps(chosen) ==
    /\ gap_tables.status = "none"
    /\ gap_instruments' = SelectIndices(GapUniverse, chosen, 1)
    /\ gap_tables' = gap_calculator_calculate(
                         SelectIndices(GapUniverse, chosen, 1), 0)

GapNext ==
    \E chosen \in SUBSET DOMAIN GapUniverse :
        /\ Cardinality(chosen) <= MaxGapInstruments
        /\ CalculateGaps(chosen)

---------------------------------------------------------------------------
(* Claims about repricing dates before the calculation date *)

\* A contribution with a repricing date and a repricing amount whose date
\* lies before the calculation date.
Overdue(contrib, calculation_date) ==
    /\ HasRepricing(contrib)
    /\ contrib.repricing_date[1] < calculation_date

NotOverdue(cs, calculation_date) ==
    SelectIndices(cs, {i \in DOMAIN cs : ~Overdue(cs[i], calculation_date)}, 1)

\* The aggregate of a call counts no overdue contribution in its
\* interest_rate_gaps and repricing_gap_total: they are those of the
\* contributions that are not overdue.
ExcludesOverdue(call) ==
    /\ aggregates[call].interest_rate_gaps
          = irr_gaps_by_currency(NotOverdue(ContributionsOf(call), aggregation_date),
                                 aggregation_date)
    /\ aggregates[call].repricing_gap_total
          = TableSum(irr_gaps_by_currency(
                         NotOverdue(ContributionsOf(call), aggregation_date),
                         aggregation_date))

\* C12: a contribution whose repricing_date is earlier than the calculation
\* date is counted in no IRR gap bucket of the scenario aggregator: neither
\* in interest_rate_gaps nor in repricing_gap_total.
C12_OverdueExcluded ==
    \A call \in AggregateCalls :
        aggregates[call].status = "returned" => ExcludesOverdue(call)

\* What the aggregator does: an overdue contribution is counted in the
\* bucket 0-1m of its currency.
C12_OverdueInFirstBucket ==
    \A call \in AggregateCalls :
        aggregates[call].status = "returned" =>
            \A i \in DOMAIN ContributionsOf(call) :
                Overdue(ContributionsOf(call)[i], aggregation_date) =>
                    <<ContributionCurrency(ContributionsOf(call)[i]), "0-1m">>
                        \in DOMAIN aggregates[call].interest_rate_gaps

C12_Witness ==
    /\ aggregates["A"].status = "returned"
    /\ Len(contributions_A) = 1
    /\ Overdue(contributions_A[1], aggregation_date)
    /\ GapAt(aggregates["A"].interest_rate_gaps, "RUB", "0-1m")
          = contributions_A[1].repricing_amount
    /\ aggregates["A"].repricing_gap_total = contributions_A[1].repricing_amount

\* An instrument that reprices at its maturity, with a maturity before the
\* calculation date.
OverdueInstrument(instrument) ==
    /\ instrument.maturity_date # None
    /\ instrument.maturity_date[1] < 0
    /\ IsDeposit(instrument) => ~instrument.is_demand_deposit

\* The rows of the gap calculator's tables hold the instruments that are
\* not overdue and nothing else.
C12_GapCalculatorExcludesOverdue ==
    gap_tables.status = "returned" =>
        gap_tables = gap_calculator_calculate(
                         SelectIndices(gap_instruments,
                                       {i \in DOMAIN gap_instruments :
                                           ~OverdueInstrument(gap_instruments[i])},
                                       1), 0)

C12_GapWitness ==
    /\ gap_tables.status = "returned"
    /\ DOMAIN gap_tables.gaps # {}
    /\ \E i \in DOMAIN gap_instruments : OverdueInstrument(gap_instruments[i])

---------------------------------------------------------------------------
(* Claims about failures of single instruments in a scenario *)

\* The result of the last scenario run and the outcomes of
\* calculate_risk_contribution on the instruments stressed for it.
LastResult == scenario_results[Len(scenario_results)]

LastScenario == scenarios_run[Len(scenario_results)]

StressCompleted ==
    /\ scenario_results # <<>>
    /\ Len(stressed_instruments) = Len(scen_instruments)

StressedOutcomes ==
    [i \in DOMAIN stressed_instruments |->
        calculate_risk_contribution(heap[stressed_instruments[i]],
                                    LastScenario.calculation_date)]

SomeContributionRaises ==
    \E i \in DOMAIN StressedOutcomes : StressedOutcomes[i].status # "returned"

\* The contributions of the instruments whose calculation succeeded.
Succeeded ==
    [j \in 1..Cardinality({i \in DOMAIN StressedOutcomes :
                              StressedOutcomes[i].status = "returned"}) |->
        SelectIndices(StressedOutcomes,
                      {i \in DOMAIN StressedOutcomes :
                          StressedOutcomes[i].status = "returned"}, 1)[j].contribution]

\* C13: when the contribution of some instruments of a scenario raises, the
\* scenario still completes, and its aggregates are those of exactly the
\* instruments whose contribution succeeded.
C13_FailuresIsolated ==
    (StressCompleted /\ SomeContributionRaises) =>
        /\ LastResult.status = "returned"
        /\ LastResult.risk_contributions = Succeeded
        /\ LastResult.aggregate
              = _aggregate_risks(Succeeded, LastScenario.calculation_date)

\* The scenario completes with the aggregates of the instruments that
\* succeeded whenever every contribution that succeeded carries Decimals.
C13_IsolatedForDecimals ==
    (/\ StressCompleted
     /\ SomeContributionRaises
     /\ \A j \in DOMAIN Succeeded : Succeeded[j].kind = "decimal") =>
        /\ LastResult.status = "returned"
        /\ LastResult.risk_contributions = Succeeded
        /\ LastResult.aggregate
              = _aggregate_risks(Succeeded, LastScenario.calculation_date)

\* A scenario that completed although one contribution raised.
C13_Witness ==
    /\ StressCompleted
    /\ SomeContributionRaises
    /\ LastResult.status = "returned"
    /\ LastResult.risk_contributions # <<>>

\* A scenario that did not complete although every instrument was stressed:
\* the aggregation raised on a contribution that succeeded.
C13_AbortWitness ==
    /\ StressCompleted
    /\ SomeContributionRaises
    /\ LastResult.status = "TypeError"

\* No call of calculate_scenario raises.
C13_ScenarioCompletes ==
    \A k \in DOMAIN scenario_results : scenario_results[k].status = "returned"

---------------------------------------------------------------------------
(* Claims about the survival horizon of the aggregator *)

\* The bucket -> day table of the midpoints.
MidpointDays(bucket) ==
    CASE bucket = "overnight" -> 1
      [] bucket = "2-7d" -> 4
      [] bucket = "8-14d" -> 11
      [] bucket = "15-30d" -> 22
      [] bucket = "30-90d" -> 60
      [] bucket = "90-180d" -> 135
      [] bucket = "180-365d" -> 270
      [] bucket = "1-2y" -> 548
      [] bucket = "2y+" -> 1095

\* The positions in bucket_order of the negative cumulative gaps of a
\* currency in the aggregate of a call.
NegativeBuckets(call, ccy) ==
    {k \in DOMAIN bucket_order : aggregates[call].cumulative_gaps[ccy][k] < 0}

FirstNegativeBucket(call, ccy) ==
    bucket_order[CHOOSE k \in NegativeBuckets(call, ccy) :
                    \A j \in NegativeBuckets(call, ccy) : k <= j]

\* C14: for each currency of a result, survival_horizon_days is the day
\* count the table of midpoints (1, 4, 11, 22, 60, 135, 270, 548, 1095) gives
\* the first bucket, in canonical order, whose cumulative gap is negative,
\* and 1095 when no cumulative gap is negative.
C14_SurvivalHorizonMidpoint ==
    \A call \in AggregateCalls :
        aggregates[call].status = "returned" =>
            /\ DOMAIN aggregates[call].survival_horizon_days
                  = DOMAIN aggregates[call].cumulative_gaps
            /\ \A ccy \in DOMAIN aggregates[call].survival_horizon_days :
                  aggregates[call].survival_horizon_days[ccy]
                     = IF NegativeBuckets(call, ccy) # {}
                       THEN MidpointDays(FirstNegativeBucket(call, ccy))
                       ELSE 1095

\* What the aggregator reports: the upper bound in days of the first bucket
\* whose cumulative gap is negative (1, 7, 14, 30, 90, 180, 365, 730, 1095).
C14_SurvivalHorizonUpperBound ==
    \A call \in AggregateCalls :
        aggregates[call].status = "returned" =>
            /\ DOMAIN aggregates[call].survival_horizon_days
                  = DOMAIN aggregates[call].cumulative_gaps
            /\ \A ccy \in DOMAIN aggregates[call].survival_horizon_days :
                  aggregates[call].survival_horizon_days[ccy]
                     = IF NegativeBuckets(call, ccy) # {}
                       THEN bucket_days_mapping(FirstNegativeBucket(call, ccy))
                       ELSE 1095

\* A horizon in the bucket 30-90d, and one with no negative cumulative gap.
C14_Witness ==
    /\ aggregates["A"].status = "returned"
    /\ aggregates["B"].status = "returned"
    /\ "RUB" \in DOMAIN aggregates["A"].survival_horizon_days
    /\ NegativeBuckets("A", "RUB") # {}
    /\ FirstNegativeBucket("A", "RUB") = "30-90d"
    /\ aggregates["A"].survival_horizon_days["RUB"] = 90
    /\ "USD" \in DOMAIN aggregates["B"].survival_horizon_days
    /\ NegativeBuckets("B", "USD") = {}
    /\ aggregates["B"].survival_horizon_days["USD"] = 1095

---------------------------------------------------------------------------
(* SurvivalHorizonCalculator *)

\* The parameters SurvivalHorizonCalculator.__init__ and calculate declare
\* after self.
horizon_init_parameters ==
    <<"calculation_date", "liquidity_buckets", "stress_scenario">>

horizon_calculate_parameters ==
    <<"instruments", "risk_params", "liquid_assets_buffer">>

\* The lists of liquidity buckets a calculator is constructed with: the nine
\* of the scenario calculator, and the deposits' default list.
BucketLists ==
    {bucket_order,
     <<"0-30d", "30-90d", "90-180d", "180-365d", "1-2y", "2y+">>}

\* _bucket_to_days
_bucket_to_days(bucket) ==
    IF bucket \in Range(bucket_order) THEN bucket_days_mapping(bucket) ELSE 30

\* The amount _collect_cash_flows books for a currency and a bucket on one
\* side: every cash flow of a contribution counts once for each currency of
\* its currency_exposure.
FlowOn(contrib, currency, bucket, side) ==
    IF /\ currency \in ExposureCurrencies(contrib)
       /\ bucket \in DOMAIN contrib.cash_flows
       /\ (side = "inflow") = (contrib.cash_flows[bucket] > 0)
    THEN Abs(contrib.cash_flows[bucket])
    ELSE 0

\* _collect_cash_flows: per currency one row for each bucket of
\* self.liquidity_buckets.  A contribution that raises ends the call, and
\* so does a float cash flow added to the Decimal accumulators.
_collect_cash_flows(outcomes, buckets) ==
    IF \E i \in DOMAIN outcomes :
          \/ outcomes[i].status # "returned"
          \/ /\ outcomes[i].contribution.kind = "float"
             /\ outcomes[i].contribution.currency_exposure # <<>>
             /\ DOMAIN outcomes[i].contribution.cash_flows # {}
    THEN [status |-> "TypeError", flows |-> NoTable]
    ELSE [status |-> "returned",
          flows |->
            [currency \in UNION {ExposureCurrencies(outcomes[i].contribution) :
                                    i \in DOMAIN outcomes} |->
                [k \in DOMAIN buckets |->
                    [bucket |-> buckets[k],
                     inflow |-> SeqSum([i \in DOMAIN outcomes |->
                                           FlowOn(outcomes[i].contribution,
                                                  currency, buckets[k], "inflow")]),
                     outflow |-> SeqSum([i \in DOMAIN outcomes |->
                                            FlowOn(outcomes[i].contribution,
                                                   currency, buckets[k], "outflow")])]]]]

\* _apply_stress_scenario: the net flow of a row in tenths, inflows cut and
\* outflows raised as the scenario says.
StressedNetFlow(row, stress_scenario) ==
    CASE stress_scenario = "moderate" -> 8 * row.inflow - 11 * row.outflow
      [] stress_scenario = "severe" -> 6 * row.inflow - 13 * row.outflow
      [] OTHER -> 10 * row.inflow - 10 * row.outflow

\* _calculate_cumulative_gaps: the running sum of the net flows, in tenths.
CumulativeGap(rows, stress_scenario, k) ==
    SeqSum([j \in 1..k |-> StressedNetFlow(rows[j], stress_scenario)])

\* _determine_survival_horizon: the days of the first bucket where buffer
\* plus cumulative gap is negative, the days of the last bucket when none is.
_determine_survival_horizon(rows, stress_scenario, buffer) ==
    LET critical == {k \in DOMAIN rows :
                        10 * buffer + CumulativeGap(rows, stress_scenario, k) < 0}
    IN IF critical # {}
       THEN [days |-> _bucket_to_days(
                          rows[CHOOSE k \in critical :
                                  \A j \in critical : k <= j].bucket),
             critical |-> TRUE]
       ELSE [days |-> _bucket_to_days(rows[Len(rows)].bucket),
             critical |-> FALSE]

NoHorizon == [status |-> "none", overall |-> 0, by_currency |-> NoTable]

Least(S) == CHOOSE x \in S : \A y \in S : x <= y

Greatest(S) == CHOOSE x \in S : \A y \in S : x >= y

\* The result calculate assembles from the collected flows.  float(None)
\* raises for the RUB buffer when no buffer is given, and min() raises on no
\* currency at all.
HorizonResult(collected, stress_scenario, liquid_assets_buffer) ==
    IF collected.status # "returned"
    THEN [NoHorizon EXCEPT !.status = collected.status]
    ELSE IF "RUB" \in DOMAIN collected.flows /\ liquid_assets_buffer = None
    THEN [NoHorizon EXCEPT !.status = "TypeError"]
    ELSE IF DOMAIN collected.flows = {}
    THEN [NoHorizon EXCEPT !.status = "ValueError"]
    ELSE The({[status |-> "returned",
               overall |-> Least({by_currency[c].days : c \in DOMAIN by_currency}),
               by_currency |-> by_currency] :
                 by_currency \in
                    {[currency \in DOMAIN collected.flows |->
                         _determine_survival_horizon(
                             collected.flows[currency], stress_scenario,
                             IF currency = "RUB" THEN liquid_assets_buffer[1]
                             ELSE 0)]}})

\* SurvivalHorizonCalculator.calculate
horizon_calculate(insts, buckets, stress_scenario, liquid_assets_buffer, calculation_date) ==
    The({HorizonResult(collected, stress_scenario, liquid_assets_buffer) :
            collected \in {_collect_cash_flows(
                               Contributions(insts, calculation_date), buckets)}})

\* The call of the daily-flow path:
\* SurvivalHorizonCalculator(calculation_date=..., max_horizon_days=...)
\*     .calculate(daily_flows=..., buffer=..., exclude_from_buffer=...)
daily_horizon_calculate(daily_flows, buffer, max_horizon_days) ==
    IF ~Binds(horizon_init_parameters, 0, {"calculation_date", "max_horizon_days"})
    THEN [NoHorizon EXCEPT !.status = "TypeError"]
    ELSE IF ~Binds(horizon_calculate_parameters, 0,
                   {"daily_flows", "buffer", "exclude_from_buffer"})
    THEN [NoHorizon EXCEPT !.status = "TypeError"]
    ELSE [NoHorizon EXCEPT !.status = "returned"]

\* The daily flows of one scenario column after grouping by FLOW_DAY: the
\* signed amount of each day from day 1 on.
DailyFlows ==
    UNION {[1..n -> {-2, 0, 1}] : n \in 0..MaxFlowDays}

NoHorizonCall ==
    [path |-> "none", instruments |-> <<>>, buckets |-> <<>>,
     stress_scenario |-> "base", buffer |-> None, daily_flows |-> <<>>,
     max_horizon_days |-> 0]

HorizonParked ==
    /\ horizon_call = NoHorizonCall
    /\ horizon_result = NoHorizon

HorizonInit ==
    /\ horizon_call = NoHorizonCall
    /\ horizon_result = NoHorizon

\* SurvivalHorizonCalculator(calculation_date, liquidity_buckets,
\* stress_scenario).calculate(instruments, risk_params, liquid_assets_buffer),
\* on a calculator constructed for the call
CalculateHorizon(chosen, buckets, stress_scenario, buffer) ==
    /\ horizon_call.path = "none"
    /\ horizon_call' =
          [NoHorizonCall EXCEPT
              !.path = "buckets",
              !.instruments = SelectIndices(GapUniverse, chosen, 1),
              !.buckets = buckets, !.stress_scenario = stress_scenario,
              !.buffer = buffer]
    /\ horizon_result' =
          horizon_calculate(SelectIndices(GapUniverse, chosen, 1), buckets,
                            stress_scenario, buffer, 0)

\* The call of the daily-flow path on the flows of one scenario column
CalculateDailyHorizon(daily_flows, buffer, max_horizon_days) ==
    /\ horizon_call.path = "none"
    /\ horizon_call' =
          [NoHorizonCall EXCEPT
              !.path = "daily", !.daily_flows = daily_flows,
              !.buffer = Some(buffer), !.max_horizon_days = max_horizon_days]
    /\ horizon_result' = daily_horizon_calculate(daily_flows, buffer,
                                                 max_horizon_days)

HorizonNext ==
    \/ \E chosen \in SUBSET DOMAIN GapUniverse, buckets \in BucketLists,
          stress_scenario \in {"base", "moderate", "severe"},
          buffer \in {None, Some(0), Some(300)} :
          /\ Cardinality(chosen) <= MaxHorizonInstruments
          /\ CalculateHorizon(chosen, buckets, stress_scenario, buffer)
    \/ \E daily_flows \in DailyFlows, buffer \in {0, 1, 3},
          max_horizon_days \in 1..MaxFlowDays :
          CalculateDailyHorizon(daily_flows, buffer, max_horizon_days)

---------------------------------------------------------------------------
(* Claims about the SurvivalHorizonCalculator *)

\* The cumulative position at index k of a scenario column: the buffer at
\* index 0 plus the flows up to index k.
CumulativePosition(daily_flows, buffer, k) ==
    buffer + SeqSum([j \in 1..k |-> daily_flows[j]])

\* The largest index k with a strictly positive cumulative position at
\* every index 0..k; -1 when the position at index 0 is not positive.
LastPositiveIndex(daily_flows, buffer) ==
    IF buffer <= 0 THEN -1
    ELSE Greatest({k \in 0..Len(daily_flows) :
                 \A j \in 0..k : CumulativePosition(daily_flows, buffer, j) > 0})

\* The horizon the daily-flow path is to report.
ExpectedHorizon(daily_flows, buffer, max_horizon_days) ==
    IF \/ LastPositiveIndex(daily_flows, buffer) < 0
       \/ LastPositiveIndex(daily_flows, buffer) > max_horizon_days
    THEN max_horizon_days
    ELSE LastPositiveIndex(daily_flows, buffer)

\* C15: on the daily-flow path the horizon reported for a scenario column
\* is the largest index k with a strictly positive cumulative position
\* (buffer plus summed flows) at every index 0..k, replaced by
\* max_horizon_days when that is negative or exceeds max_horizon_days; it
\* lies in 0..max_horizon_days.
C15_DailyHorizon ==
    horizon_call.path = "daily" =>
        /\ horizon_result.status = "returned"
        /\ horizon_result.overall
              = ExpectedHorizon(horizon_call.daily_flows, horizon_call.buffer[1],
                                horizon_call.max_horizon_days)
        /\ horizon_result.overall \in 0..horizon_call.max_horizon_days

\* No call of the daily-flow path returns: the calculator takes no
\* max_horizon_days and no daily flows.
C15_DailyPathRaises ==
    horizon_call.path = "daily" => horizon_result.status = "TypeError"

C15_Witness ==
    /\ horizon_call.path = "daily"
    /\ Len(horizon_call.daily_flows) = MaxFlowDays
    /\ ExpectedHorizon(horizon_call.daily_flows, horizon_call.buffer[1],
                       horizon_call.max_horizon_days) = 1
    /\ horizon_call.max_horizon_days > 1

\* The calculator of the bucket path returns the days of the first bucket
\* with a negative position.
C15_BucketWitness ==
    /\ horizon_call.path = "buckets"
    /\ horizon_result.status = "returned"
    /\ "RUB" \in DOMAIN horizon_result.by_currency
    /\ horizon_result.by_currency["RUB"].critical
    /\ horizon_result.by_currency["RUB"].days = 90

---------------------------------------------------------------------------
(* Claims about the choice of the elasticity *)

\* The elasticity of the first applicable rule: the sign-specific one of an
\* asymmetric model, the threshold one when the three threshold fields are
\* set, base_elasticity otherwise.
FirstApplicableElasticity(rate_shock_bps, params) ==
    IF /\ params.asymmetric
       /\ rate_shock_bps > 0
       /\ params.positive_shock_elasticity # None
    THEN params.positive_shock_elasticity[1]
    ELSE IF /\ params.asymmetric
            /\ rate_shock_bps < 0
            /\ params.negative_shock_elasticity # None
    THEN params.negative_shock_elasticity[1]
    ELSE IF /\ params.threshold_rate_change # None
            /\ params.below_threshold_elasticity # None
            /\ params.above_threshold_elasticity # None
    THEN (IF Abs(rate_shock_bps) < params.threshold_rate_change[1]
          THEN params.below_threshold_elasticity[1]
          ELSE params.above_threshold_elasticity[1])
    ELSE params.base_elasticity

\* The ceiling and the floor of the parameters applied to an elasticity.
Bounded(elasticity, params) ==
    LET capped == IF params.elasticity_ceiling # None
                  THEN Min(elasticity, params.elasticity_ceiling[1])
                  ELSE elasticity
    IN IF params.elasticity_floor # None
       THEN Max(capped, params.elasticity_floor[1])
       ELSE capped

\* C16: the elasticity used for a deposit is that of the first applicable
\* rule: the positive-shock elasticity of an asymmetric model for a positive
\* shock, its negative-shock elasticity for a negative shock, each when set;
\* else the threshold elasticity when the three threshold fields are set;
\* else base_elasticity.  An asymmetric model without the value for the sign
\* of the shock falls through to the threshold rule.
C16_FirstApplicableRule ==
    \A i \in DOMAIN volume_changes :
        volume_changes[i].elasticity_used
           = Bounded(FirstApplicableElasticity(
                         volume_changes[i].rate_change_bps,
                         ApplicableParams(volume_changes[i])),
                     ApplicableParams(volume_changes[i]))

\* An asymmetric model that has both of its elasticities, or a model that is
\* not asymmetric and has no threshold field of zero.
RulesComplete(params) ==
    IF params.asymmetric
    THEN /\ params.positive_shock_elasticity # None
         /\ params.negative_shock_elasticity # None
    ELSE /\ params.threshold_rate_change # Some(0)
         /\ params.below_threshold_elasticity # Some(0)
         /\ params.above_threshold_elasticity # Some(0)

\* The first applicable rule is the one used for every such model.
C16_FirstRuleWhenComplete ==
    \A i \in DOMAIN volume_changes :
        RulesComplete(ApplicableParams(volume_changes[i])) =>
            volume_changes[i].elasticity_used
               = Bounded(FirstApplicableElasticity(
                             volume_changes[i].rate_change_bps,
                             ApplicableParams(volume_changes[i])),
                         ApplicableParams(volume_changes[i]))

\* An asymmetric model without an elasticity for positive shocks, a
\* positive shock and a threshold model: base_elasticity is what is used.
C16_Witness ==
    \E i \in DOMAIN volume_changes :
        LET vc == volume_changes[i]
            params == ApplicableParams(vc)
        IN /\ params.asymmetric
           /\ params.positive_shock_elasticity = None
           /\ vc.rate_change_bps > 0
           /\ params.threshold_rate_change # None
           /\ vc.elasticity_used = params.base_elasticity
           /\ vc.elasticity_used # params.above_threshold_elasticity[1]

\* The rules that take the sign-specific elasticities are used.
C16_RulesWitness ==
    \E i \in DOMAIN volume_changes :
        /\ ApplicableParams(volume_changes[i]).asymmetric
        /\ ApplicableParams(volume_changes[i]).positive_shock_elasticity # None
        /\ volume_changes[i].rate_change_bps > 0
        /\ volume_changes[i].elasticity_used
              = ApplicableParams(volume_changes[i]).positive_shock_elasticity[1]
        /\ volume_changes[i].elasticity_used
              # ApplicableParams(volume_changes[i]).base_elasticity

\* The threshold rule is used by a model that is not asymmetric, within
\* its ceiling and floor.
C16_ThresholdWitness ==
    \E i \in DOMAIN volume_changes :
        /\ ~ApplicableParams(volume_changes[i]).asymmetric
        /\ ApplicableParams(volume_changes[i]).below_threshold_elasticity # None
        /\ volume_changes[i].elasticity_used
              = Bounded(ApplicableParams(volume_changes[i]).below_threshold_elasticity[1],
                        ApplicableParams(volume_changes[i]))
        /\ volume_changes[i].elasticity_used
              # ApplicableParams(volume_changes[i]).base_elasticity

---------------------------------------------------------------------------
(* One calculator called with several shocks on the same deposit *)

\* A linear model that adapts at no speed at all.
NoAdjustment ==
    ElasticityParameters("retail", "demand", -5, FALSE, None, None,
                         None, None, None, None, None, 0, 10,
                         Some(25), Some(50))

ResponseParameterSets ==
    {create_retail_demand_default, create_retail_term_default,
     create_corporate_default, StrongLinear, ThresholdBounded,
     [StrongLinear EXCEPT !.max_volume_change = None,
                          !.min_remaining_volume = None],
     [create_corporate_default EXCEPT !.max_volume_change = None],
     NoAdjustment}

ResponseParked ==
    /\ response_params = [key \in {} |-> create_retail_demand_default]
    /\ response_deposit = <<>>
    /\ response_calls = <<>>

\* DepositElasticityCalculator.__init__ with one parameter set, and the
\* deposit the calls are made on.
ResponseInit ==
    /\ \E params \in ResponseParameterSets :
          response_params =
              [key \in {<<params.customer_segment, params.deposit_type>>}
                  |-> params]
    /\ \E i \in DOMAIN DepositUniverse : response_deposit = <<DepositUniverse[i]>>
    /\ response_calls = <<>>

\* calculate_volume_changes([deposit], {deposit.currency: rate_shock_bps})
CalculateResponse(rate_shock_bps) ==
    /\ Len(response_calls) < MaxResponseCalls
    /\ \E outcome \in {calculate_volume_changes(
                          response_params, response_deposit,
                          [c \in {response_deposit[1].currency} |-> rate_shock_bps])} :
          response_calls' =
              Append(response_calls,
                     [rate_shock_bps |-> rate_shock_bps,
                      status |-> outcome.status, changes |-> outcome.changes])
    /\ UNCHANGED <<response_params, response_deposit>>

ResponseNext == \E rate_shock_bps \in RubShocks : CalculateResponse(rate_shock_bps)

---------------------------------------------------------------------------
(* Claims about the direction of the volume response *)

\* The parameters the calculator uses for the deposit, if it has any.
ResponseKey ==
    IF _determine_customer_segment(response_deposit[1]) = "AttributeError"
    THEN None
    ELSE ParamsKey(response_params,
                   _determine_customer_segment(response_deposit[1]),
                   _determine_deposit_type(response_deposit[1]))

ResponseParams == response_params[ResponseKey[1]]

\* No asymmetric and no threshold override.
PlainLinear(params) ==
    /\ ~params.asymmetric
    /\ \/ params.threshold_rate_change = None
       \/ params.below_threshold_elasticity = None
       \/ params.above_threshold_elasticity = None

\* Neither limit of the parameters is reached by the response to a shock.
NoClipBinds(params, amount, rate_shock_bps) ==
    LET unclipped == params.base_elasticity * rate_shock_bps
                        * params.adjustment_speed * params.competitive_factor
    IN /\ params.max_volume_change # None =>
             Abs(unclipped) <= Hundredths(params.max_volume_change[1])
       /\ params.min_remaining_volume # None =>
             amount * (Scale + unclipped)
                >= amount * Hundredths(params.min_remaining_volume[1])

\* new_amount - original_amount of a call; a deposit left out of the result
\* has not changed.
VolumeChange(call) ==
    IF call.changes = <<>> THEN 0 ELSE call.changes[1].volume_change

\* Of two calls that returned, the one with the larger shock has the
\* strictly smaller volume change.
Monotone ==
    \A i, j \in DOMAIN response_calls :
        (/\ response_calls[i].status = "returned"
         /\ response_calls[j].status = "returned"
         /\ NoClipBinds(ResponseParams, response_deposit[1].amount,
                        response_calls[i].rate_shock_bps)
         /\ NoClipBinds(ResponseParams, response_deposit[1].amount,
                        response_calls[j].rate_shock_bps)
         /\ response_calls[i].rate_shock_bps > response_calls[j].rate_shock_bps)
            => VolumeChange(response_calls[i]) < VolumeChange(response_calls[j])

\* C17: for a deposit whose parameters have base_elasticity < 0, no
\* asymmetric or threshold override and no binding clip, a strictly larger
\* rate shock yields a strictly smaller volume change.
C17_Monotone ==
    (/\ ResponseKey # None
     /\ PlainLinear(ResponseParams)
     /\ ResponseParams.base_elasticity < 0) => Monotone

\* C17, amended: the same for parameters with adjustment_speed > 0 and
\* competitive_factor > 0 and a deposit of positive amount.
C17_MonotoneWhenAdjusting ==
    (/\ ResponseKey # None
     /\ PlainLinear(ResponseParams)
     /\ ResponseParams.base_elasticity < 0
     /\ ResponseParams.adjustment_speed > 0
     /\ ResponseParams.competitive_factor > 0
     /\ response_deposit[1].amount > 0) => Monotone

\* A negative, a zero and a positive shock on a deposit with a linear model
\* that adapts, none clipped: the volume rises, stays and falls.
C17_Witness ==
    /\ ResponseKey # None
    /\ PlainLinear(ResponseParams)
    /\ ResponseParams.base_elasticity < 0
    /\ ResponseParams.adjustment_speed > 0
    /\ Len(response_calls) >= 2
    /\ \E i, j \in DOMAIN response_calls :
          /\ response_calls[i].rate_shock_bps > 0
          /\ response_calls[j].rate_shock_bps < 0
          /\ response_calls[i].changes # <<>>
          /\ response_calls[j].changes # <<>>
          /\ NoClipBinds(ResponseParams, response_deposit[1].amount,
                         response_calls[i].rate_shock_bps)
          /\ NoClipBinds(ResponseParams, response_deposit[1].amount,
                         response_calls[j].rate_shock_bps)
          /\ VolumeChange(response_calls[i]) < 0
          /\ VolumeChange(response_calls[j]) > 0

\* Two shocks on a deposit whose model has adjustment_speed 0: no change
\* either time.
C17_StillWitness ==
    /\ ResponseKey # None
    /\ ResponseParams.adjustment_speed = 0
    /\ \E i, j \in DOMAIN response_calls :
          /\ response_calls[i].rate_shock_bps > response_calls[j].rate_shock_bps
          /\ response_calls[i].changes # <<>>
          /\ response_calls[j].changes # <<>>
          /\ VolumeChange(response_calls[i]) = 0
          /\ VolumeChange(response_calls[j]) = 0

---------------------------------------------------------------------------
(* The dynamic balance sheet of the elasticity calculator, with the
   deposits held as objects; amounts on this heap are in units of 1/Scale *)

OneParameterSet(params) ==
    [key \in {<<params.customer_segment, params.deposit_type>>} |-> params]

SheetConfigs ==
    {create_default_elasticity_config,
     OneParameterSet(create_retail_demand_default),
     OneParameterSet(StrongLinear),
     OneParameterSet(ThresholdBounded)}

NoSheet == [status |-> "none", new_deposits |-> <<>>, changes |-> <<>>]

SheetParked ==
    /\ sheet_params = [key \in {} |-> create_retail_demand_default]
    /\ sheet_heap = <<>>
    /\ sheet_deposits = <<>>
    /\ sheet_result = NoSheet

\* DepositElasticityCalculator.__init__, and the deposits of the caller.
SheetInit ==
    /\ sheet_params \in SheetConfigs
    /\ \E chosen \in SUBSET DOMAIN DepositUniverse :
          /\ Cardinality(chosen) <= MaxDeposits
          /\ sheet_heap = ScaleAmounts(SelectIndices(DepositUniverse, chosen, 1))
          /\ sheet_deposits = [i \in 1 .. Cardinality(chosen) |-> i]
    /\ sheet_result = NoSheet

\* The amount of an object as the calculator reads it.
ValueAt(h, a) == [h[a] EXCEPT !.amount = @ \div Scale]

\* The loop of create_dynamic_balance_sheet from the i-th deposit on:
\* changes_dict holds, for an id, the last record with that id.
RECURSIVE NewDepositsFrom(_, _, _, _, _)
NewDepositsFrom(h, ds, changes, new_deposits, i) ==
    IF i > Len(ds) THEN [heap |-> h, new_deposits |-> new_deposits]
    ELSE The({NewDepositsFrom(
                 IF ChangeOf(changes, h[ds[i]].instrument_id) # None
                 THEN [copy.heap EXCEPT ![copy.addr].amount =
                          ChangeOf(changes, h[ds[i]].instrument_id)[1].new_amount]
                 ELSE copy.heap,
                 ds, changes, Append(new_deposits, copy.addr), i + 1) :
              copy \in {model_copy(h, ds[i])}})

\* create_dynamic_balance_sheet(deposits, rate_shocks)
CreateDynamicBalanceSheet(shocks) ==
    /\ sheet_result.status = "none"
    /\ \E outcome \in {calculate_volume_changes(
                          sheet_params,
                          [i \in DOMAIN sheet_deposits |->
                              ValueAt(sheet_heap, sheet_deposits[i])],
                          shocks)} :
          IF outcome.status # "returned"
          THEN /\ sheet_result' = [NoSheet EXCEPT !.status = outcome.status]
               /\ UNCHANGED sheet_heap
          ELSE \E built \in {NewDepositsFrom(sheet_heap, sheet_deposits,
                                             outcome.changes, <<>>, 1)} :
                  /\ sheet_heap' = built.heap
                  /\ sheet_result' = [status |-> "returned",
                                      new_deposits |-> built.new_deposits,
                                      changes |-> outcome.changes]
    /\ UNCHANGED <<sheet_params, sheet_deposits>>

SheetNext ==
    \E rub \in RubShocks, usd \in UsdShocks,
       shocked \in {{"RUB"}, {"RUB", "USD"}} :
        CreateDynamicBalanceSheet([c \in shocked |-> IF c = "RUB" THEN rub ELSE usd])

---------------------------------------------------------------------------
(* Claims about the dynamic balance sheet *)

\* The deposit of the universe with the id, as the caller constructed it.
AsConstructed(instrument_id) ==
    ScaleAmount(The({d \in Range(DepositUniverse) : d.instrument_id = instrument_id}))

\* The volume-change records of a deposit.
RecordsOf(instrument_id) ==
    {k \in DOMAIN sheet_result.changes :
        sheet_result.changes[k].instrument_id = instrument_id}

\* C18: create_dynamic_balance_sheet returns one deposit per input deposit,
\* in the same order and with the same ids; each is a new object equal to
\* its input, except that a deposit with a volume-change record has that
\* record's new_amount as amount; the input deposits are not modified.
C18_DynamicBalanceSheet ==
    sheet_result.status = "returned" =>
        /\ Len(sheet_result.new_deposits) = Len(sheet_deposits)
        /\ \A i \in DOMAIN sheet_deposits :
              /\ sheet_result.new_deposits[i] \notin Range(sheet_deposits)
              /\ sheet_heap[sheet_result.new_deposits[i]].instrument_id
                    = sheet_heap[sheet_deposits[i]].instrument_id
              /\ sheet_heap[sheet_deposits[i]]
                    = AsConstructed(sheet_heap[sheet_deposits[i]].instrument_id)
              /\ IF RecordsOf(sheet_heap[sheet_deposits[i]].instrument_id) = {}
                 THEN sheet_heap[sheet_result.new_deposits[i]]
                         = sheet_heap[sheet_deposits[i]]
                 ELSE \A k \in RecordsOf(sheet_heap[sheet_deposits[i]].instrument_id) :
                         sheet_heap[sheet_result.new_deposits[i]]
                            = [sheet_heap[sheet_deposits[i]] EXCEPT
                                  !.amount = sheet_result.changes[k].new_amount]

\* A sheet of two deposits, one with a record that changed its amount and
\* one without a record.
C18_Witness ==
    /\ sheet_result.status = "returned"
    /\ Len(sheet_deposits) = 2
    /\ \E i, j \in DOMAIN sheet_deposits :
          /\ RecordsOf(sheet_heap[sheet_deposits[i]].instrument_id) # {}
          /\ sheet_heap[sheet_result.new_deposits[i]].amount
                # sheet_heap[sheet_deposits[i]].amount
          /\ RecordsOf(sheet_heap[sheet_deposits[j]].instrument_id) = {}

---------------------------------------------------------------------------
(* Claims about the result of calculate_dynamic_irr *)

\* C19: for any instrument list and rate shocks, calculate_dynamic_irr
\* completes and returns the static result of the gap calculator on the
\* instruments given and a comparison whose differences are dynamic minus
\* static for every currency and bucket.
C19_DynamicIrrCompletes ==
    dyn_pc = "called" =>
        /\ dynamic_irr.status = "returned"
        /\ book_filter = None =>
              dynamic_irr.static_gaps
                 = gap_calculator_calculate(ScaleAmounts(dyn_instruments), 0).gaps
        /\ dynamic_irr.comparison
              = _compare_static_vs_dynamic(dynamic_irr.static_gaps,
                                           dynamic_irr.static_sensitivity,
                                           dynamic_irr.dynamic_gaps,
                                           dynamic_irr.dynamic_sensitivity)

\* A call with a deposit, another instrument and a shock that is not zero.
C19_Witness ==
    /\ dyn_pc = "called"
    /\ \E i, j \in DOMAIN dyn_instruments :
          IsDeposit(dyn_instruments[i]) /\ ~IsDeposit(dyn_instruments[j])
    /\ \E k \in DOMAIN dyn_rate_shocks : dyn_rate_shocks[k].shock # 0
    /\ dynamic_irr.status = "TypeError"

---------------------------------------------------------------------------
(* Claims about the deposit run-off of a scenario *)

\* Every stressed deposit holds its original amount times
\* (1 - deposit_runoff_pct / 100), every other instrument its own amount.
RunoffApplied ==
    \A i \in DOMAIN stressed_instruments :
        heap[stressed_instruments[i]].amount
           = IF instrument_type(heap[scen_instruments[i]]) = "deposit"
             THEN (heap[scen_instruments[i]].amount
                     * (100 - LastScenario.deposit_runoff_pct)) \div 100
             ELSE heap[scen_instruments[i]].amount

\* C20: for a scenario with deposit_runoff_pct = p > 0, stressing completes
\* and every deposit's stressed amount is its original amount times
\* (1 - p/100), while the amount of every other instrument is unchanged.
C20_DepositRunoff ==
    (scenario_results # <<>> /\ LastScenario.deposit_runoff_pct > 0) =>
        /\ StressCompleted
        /\ RunoffApplied

\* The amounts are as claimed whenever the stressing completes.
C20_RunoffWhenStressed ==
    (/\ scenario_results # <<>>
     /\ LastScenario.deposit_runoff_pct > 0
     /\ StressCompleted) => RunoffApplied

\* A run-off scenario on a portfolio with a deposit whose amount is a float:
\* the stressing raises.
C20_Witness ==
    /\ scenario_results # <<>>
    /\ LastScenario.deposit_runoff_pct > 0
    /\ \E i \in DOMAIN scen_instruments :
          /\ instrument_type(heap[scen_instruments[i]]) = "deposit"
          /\ heap[scen_instruments[i]].amount_kind = "float"
    /\ ~StressCompleted
    /\ LastResult.status = "TypeError"

\* A run-off scenario that stressed a deposit with a Decimal amount and
\* another instrument.
C20_DecimalWitness ==
    /\ scenario_results # <<>>
    /\ LastScenario.deposit_runoff_pct > 0
    /\ StressCompleted
    /\ \E i, j \in DOMAIN scen_instruments :
          /\ instrument_type(heap[scen_instruments[i]]) = "deposit"
          /\ heap[stressed_instruments[i]].amount
                < heap[scen_instruments[i]].amount
          /\ instrument_type(heap[scen_instruments[j]]) # "deposit"

---------------------------------------------------------------------------
(* Claims about a scenario without stress *)

\* Every rate shock of the scenario is zero, and so are both percentages.
ZeroStress(scenario) ==
    /\ \A ccy \in DOMAIN scenario.interest_rate_shock_bps :
          scenario.interest_rate_shock_bps[ccy] = 0
    /\ scenario.deposit_runoff_pct = 0
    /\ scenario.credit_line_drawdown_pct = 0

\* C21: if every entry of interest_rate_shock_bps is zero and
\* deposit_runoff_pct and credit_line_drawdown_pct are both zero, the
\* stressed portfolio has the same instruments, in the same order, with
\* every field equal to the field of the input instrument.
C21_ZeroStressNoOp ==
    (scenario_results # <<>> /\ ZeroStress(LastScenario)) =>
        /\ Len(stressed_instruments) = Len(scen_instruments)
        /\ \A i \in DOMAIN scen_instruments :
              heap[stressed_instruments[i]] = heap[scen_instruments[i]]

\* A scenario with zero shocks for the currencies of two held instruments,
\* one with an interest rate and one without.
C21_Witness ==
    /\ scenario_results # <<>>
    /\ ZeroStress(LastScenario)
    /\ DOMAIN LastScenario.interest_rate_shock_bps # {}
    /\ Len(stressed_instruments) = 2
    /\ \E i, j \in DOMAIN scen_instruments :
          /\ heap[scen_instruments[i]].interest_rate # None
          /\ heap[scen_instruments[i]].currency
                \in DOMAIN LastScenario.interest_rate_shock_bps
          /\ heap[scen_instruments[j]].interest_rate = None
          /\ stressed_instruments[i] # scen_instruments[i]

---------------------------------------------------------------------------
(* Claims about the rows of the gap tables *)

\* The contribution of the i-th instrument given to the gap calculator.
RepricingOf(i) ==
    calculate_risk_contribution(gap_instruments[i], 0).contribution

\* The instruments of a currency whose repricing date falls in a bucket.
FallingIn(currency, bucket) ==
    {i \in DOMAIN gap_instruments :
        /\ gap_instruments[i].currency = currency
        /\ RepricingOf(i).repricing_date # None
        /\ _date_to_bucket(0, RepricingOf(i).repricing_date[1]) = Some(bucket)}

\* The sum of the positive repricing amounts of a bucket.
ExpectedRsa(currency, bucket) ==
    SumOverKeys([i \in DOMAIN gap_instruments |-> RepricingOf(i).repricing_amount],
                {i \in FallingIn(currency, bucket) :
                    RepricingOf(i).repricing_amount > 0})

\* The sum of the absolute values of the negative repricing amounts.
ExpectedRsl(currency, bucket) ==
    SumOverKeys([i \in DOMAIN gap_instruments |->
                    Abs(RepricingOf(i).repricing_amount)],
                {i \in FallingIn(currency, bucket) :
                    RepricingOf(i).repricing_amount < 0})

ExpectedGap(currency, k) ==
    ExpectedRsa(currency, repricing_buckets[k])
       - ExpectedRsl(currency, repricing_buckets[k])

TotalRsa(currency) ==
    SeqSum([k \in DOMAIN repricing_buckets |->
               ExpectedRsa(currency, repricing_buckets[k])])

---------------------------------------------------------------------------
(* Claims about the delta operator of the FactorAnalyzer *)

ValueOrZero(metric, key) == IF key \in DOMAIN metric.m THEN metric.m[key].v ELSE 0

\* delta is new - old: the difference of two scalars, or the mapping over
\* the union of the keys of the key-wise differences, a missing key
\* counting as zero.
IsDeltaOf(delta, new, old) ==
    \/ /\ new.t = "num" /\ old.t = "num"
       /\ delta.t = "num"
       /\ IsNum(delta.n)
       /\ delta.n.v = new.n.v - old.n.v
    \/ /\ new.t = "map" /\ old.t = "map"
       /\ delta.t = "map"
       /\ DOMAIN delta.m = DOMAIN new.m \cup DOMAIN old.m
       /\ \A key \in DOMAIN delta.m :
             /\ IsNum(delta.m[key])
             /\ delta.m[key].v = ValueOrZero(new, key) - ValueOrZero(old, key)

DeltasOfAnalysis ==
    /\ IsDeltaOf(analysis_results.total_change,
                 analysis_results.metric_full, analysis_results.metric_base)
    /\ IsDeltaOf(analysis_results.aging_effect,
                 analysis_results.metric_aged, analysis_results.metric_base)
    /\ IsDeltaOf(analysis_results.new_deals_effect,
                 analysis_results.metric_full, analysis_results.metric_aged)

\* C23: the delta operator returns new - old for every pair of scalar
\* numbers (integers, floats and fixed-point decimals alike), and for two
\* mappings the mapping over the union of their keys of the deltas of the
\* values, a key missing on one side counting as zero.
C23_DeltaOperator == fa_pc # "constructed" => DeltasOfAnalysis

\* The same for metrics whose values are int or float.
C23_DeltaOfIntFloat ==
    (fa_pc # "constructed" /\ metric_calculator.kind # "decimal")
        => DeltasOfAnalysis

\* A Decimal scalar metric that changed: the delta returned is None.
C23_Witness ==
    /\ fa_pc # "constructed"
    /\ metric_calculator = [shape |-> "sum", kind |-> "decimal"]
    /\ analysis_results.metric_full.n.v # analysis_results.metric_base.n.v
    /\ analysis_results.total_change = MNone

\* A float mapping metric with a currency on one side only.
C23_MapWitness ==
    /\ fa_pc = "returned"
    /\ metric_calculator = [shape |-> "by_currency", kind |-> "float"]
    /\ DOMAIN analysis_results.metric_full.m
          # DOMAIN analysis_results.metric_base.m
    /\ DeltasOfAnalysis

---------------------------------------------------------------------------
(* The aging step of the FactorAnalyzer, with the instruments held as
   objects on a heap *)

\* An alias of the object instead of a copy.
deepcopy_alias(h, a) == [heap |-> h, addr |-> a]

\* copy.deepcopy(inst): a new object with the same values.
deepcopy(h, a) == [heap |-> Append(h, h[a]), addr |-> Len(h) + 1]

\* The loop of _age_instruments from the i-th instrument on.
RECURSIVE AgedFrom(_, _, _, _, _, _)
AgedFrom(h, instruments, existing_ids, cdate, aged, i) ==
    IF i > Len(instruments) THEN [heap |-> h, aged_instruments |-> aged]
    ELSE IF h[instruments[i]].instrument_id \notin existing_ids
    THEN AgedFrom(h, instruments, existing_ids, cdate, aged, i + 1)
    ELSE The({AgedFrom([copy.heap EXCEPT ![copy.addr].as_of_date = cdate],
                       instruments, existing_ids, cdate,
                       Append(aged, copy.addr), i + 1) :
                 copy \in {deepcopy(h, instruments[i])}})

AgingParked ==
    /\ aging_heap = <<>>
    /\ aging_base = <<>>
    /\ aging_comparison_ids = {}
    /\ aging_date = 0
    /\ aging_aged = <<>>
    /\ aging_pc = "parked"

\* FactorAnalyzer.__init__ with base_date 0, and the base portfolio of the
\* caller.
AgingInit ==
    /\ aging_heap \in Portfolios(0)
    /\ aging_base = [i \in DOMAIN aging_heap |-> i]
    /\ aging_comparison_ids = {}
    /\ aging_date \in 1 .. MaxDays
    /\ aging_aged = <<>>
    /\ aging_pc = "constructed"

\* The aging step of analyze: existing_ids = base_ids & comparison_ids, then
\* _age_instruments(base_instruments, existing_ids, days_elapsed).
AgeInstruments(comparison_ids) ==
    /\ aging_pc = "constructed"
    /\ \E out \in {AgedFrom(aging_heap, aging_base,
                            {aging_heap[aging_base[i]].instrument_id :
                                i \in DOMAIN aging_base} \cap comparison_ids,
                            aging_date, <<>>, 1)} :
          /\ aging_heap' = out.heap
          /\ aging_aged' = out.aged_instruments
    /\ aging_comparison_ids' = comparison_ids
    /\ aging_pc' = "aged"
    /\ UNCHANGED <<aging_base, aging_date>>

AgingNext == \E comparison_ids \in SUBSET InstrumentIds : AgeInstruments(comparison_ids)

---------------------------------------------------------------------------
(* Claims about the aged portfolio *)

\* The positions of the base instruments whose id is in the comparison
\* portfolio.
Surviving(h, base, comparison_ids) ==
    {i \in DOMAIN base : h[base[i]].instrument_id \in comparison_ids}

\* The aged list is one new object per surviving base instrument, equal to
\* it except for as_of_date, which is the comparison date.
AgedPortfolio(h, base, comparison_ids, cdate, aged) ==
    /\ Len(aged) = Cardinality(Surviving(h, base, comparison_ids))
    /\ \A j \in DOMAIN aged : aged[j] \notin Range(base)
    /\ \A i \in Surviving(h, base, comparison_ids) :
          Cardinality({j \in DOMAIN aged :
                          h[aged[j]] = [h[base[i]] EXCEPT !.as_of_date = cdate]}) = 1

\* C24: the aged portfolio consists of exactly one copy of each base
\* instrument whose id also occurs in the comparison portfolio, with
\* as_of_date set to comparison_date and maturity_date and all other fields
\* unchanged; the base instruments themselves are not modified by aging.
C24_AgedPortfolio ==
    [][aging_pc' = "aged" =>
          /\ AgedPortfolio(aging_heap', aging_base', aging_comparison_ids',
                           aging_date', aging_aged')
          /\ \A i \in DOMAIN aging_base :
                aging_heap'[aging_base[i]] = aging_heap[aging_base[i]]]_vars

\* Two base instruments, one of them in the comparison portfolio: one aged
\* copy with the later as_of_date and the same maturity_date.
C24_Witness ==
    /\ aging_pc = "aged"
    /\ Len(aging_base) = 2
    /\ Len(aging_aged) = 1
    /\ aging_heap[aging_aged[1]].as_of_date = aging_date
    /\ \E i \in DOMAIN aging_base :
          /\ aging_heap[aging_base[i]].instrument_id
                = aging_heap[aging_aged[1]].instrument_id
          /\ aging_heap[aging_base[i]].as_of_date = 0
          /\ aging_heap[aging_base[i]].maturity_date
                = aging_heap[aging_aged[1]].maturity_date

---------------------------------------------------------------------------
(* The classification of one deposit by the elasticity calculator; the
   calculator's calculation_date is day 0 *)

AsOfDates == {-30, -1, 0}

MaturityEdges == {-1, 0, 60, 89, 90, 91, 120, 364, 365, 366, 395}

NotClassified == "none"

ClassifyParked ==
    /\ classified_deposit = <<>>
    /\ classified_as = NotClassified

\* A Deposit as its constructor leaves it: as_of_date, is_demand_deposit and
\* an optional maturity_date.
ClassifyInit ==
    /\ \E as_of_date \in AsOfDates, demand \in BOOLEAN,
          maturity \in {None} \cup {Some(day) : day \in MaturityEdges} :
          classified_deposit =
              <<[as_of_date |-> as_of_date, is_demand_deposit |-> demand,
                 maturity_date |-> maturity]>>
    /\ classified_as = NotClassified

\* DepositElasticityCalculator._determine_deposit_type(deposit)
DetermineDepositType ==
    /\ classified_as = NotClassified
    /\ classified_as' = _determine_deposit_type(classified_deposit[1])
    /\ UNCHANGED classified_deposit

ClassifyNext == DetermineDepositType

---------------------------------------------------------------------------
(* Claims about the classification of a deposit *)

\* DEMAND if is_demand_deposit or no maturity date; otherwise by the days
\* from as_of_date to maturity_date.
DepositTypeByAsOfDate(deposit) ==
    IF deposit.is_demand_deposit \/ deposit.maturity_date = None THEN "demand"
    ELSE IF deposit.maturity_date[1] - deposit.as_of_date <= 90 THEN "short_term"
    ELSE IF deposit.maturity_date[1] - deposit.as_of_date <= 365 THEN "medium_term"
    ELSE "long_term"

\* C25: a deposit is classified DEMAND if is_demand_deposit is true or it
\* has no maturity date; otherwise by the number of days from its as_of_date
\* to its maturity_date: SHORT_TERM if at most 90, MEDIUM_TERM if at most
\* 365, LONG_TERM if more than 365.
C25_DepositTypeByAsOfDate ==
    classified_as # NotClassified =>
        classified_as = DepositTypeByAsOfDate(classified_deposit[1])

\* The classification is the claimed one for a deposit whose as_of_date is
\* the calculator's calculation_date.
C25_DepositTypeAtCalculationDate ==
    (classified_as # NotClassified /\ classified_deposit[1].as_of_date = 0) =>
        classified_as = DepositTypeByAsOfDate(classified_deposit[1])

\* A term deposit 90 days from the calculation date and 120 days from its
\* as_of_date, classified SHORT_TERM.
C25_Witness ==
    /\ classified_as = "short_term"
    /\ ~classified_deposit[1].is_demand_deposit
    /\ classified_deposit[1].maturity_date = Some(90)
    /\ classified_deposit[1].as_of_date = -30

\* A term deposit with as_of_date on the calculation date and more than 365
\* days to its maturity.
C25_AtDateWitness ==
    /\ classified_as = "long_term"
    /\ classified_deposit[1].as_of_date = 0
    /\ classified_deposit[1].maturity_date = Some(366)

---------------------------------------------------------------------------
(* The book of one instrument *)

TradingFx == TradingPrefix \o <<"F", "X">>

\* Names of trading portfolios: every prefix of "TRADING_FX", and names that
\* differ from the literal in case, position or one character.
PortfolioNames ==
    {SubSeq(TradingFx, 1, n) : n \in 0 .. Len(TradingFx)}
       \cup {<<"t", "r", "a", "d", "i", "n", "g", "_", "F", "X">>,
             <<"X">> \o TradingFx,
             <<" ">> \o TradingFx,
             <<"T", "R", "A", "D", "I", "N", "G", "-", "F", "X">>,
             <<"T", "R", "A", "D", "I", "N", "G", "S", "_">>,
             <<"T", "R", "A", "D", "I", "N", "G", " ", "_">>,
             <<"B", "A", "N", "K", "I", "N", "G", "_">>}

NoBook == "none"

BookParked ==
    /\ book_instrument = <<>>
    /\ book_reported = NoBook

\* BaseInstrument.__init__: trading_portfolio and book are optional.
BookInit ==
    /\ \E portfolio \in {None} \cup {Some(name) : name \in PortfolioNames},
          book \in {None, Some("trading"), Some("banking")} :
          book_instrument = <<[trading_portfolio |-> portfolio, book |-> book]>>
    /\ book_reported = NoBook

\* instrument.get_book()
GetBook ==
    /\ book_reported = NoBook
    /\ book_reported' = get_book(book_instrument[1])
    /\ UNCHANGED book_instrument

BookNext == GetBook

---------------------------------------------------------------------------
(* Claims about the book of an instrument *)

\* trading_portfolio is not null and begins with the exact literal
\* "TRADING_".
BeginsWithTradingLiteral(portfolio) ==
    /\ portfolio # None
    /\ Len(portfolio[1]) >= 8
    /\ \A i \in 1 .. 8 : portfolio[1][i] = TradingPrefix[i]

\* C26: for every instrument, the book reported by get_book is TRADING if
\* and only if trading_portfolio is not null and begins with the exact
\* literal "TRADING_"; in every other case it is BANKING.
C26_BookByPortfolio ==
    book_reported # NoBook =>
        book_reported = IF BeginsWithTradingLiteral(book_instrument[1].trading_portfolio)
                        THEN "trading" ELSE "banking"

\* C26, amended: the same for every instrument whose book is not set
\* explicitly.
C26_DerivedBookByPortfolio ==
    (book_reported # NoBook /\ book_instrument[1].book = None) =>
        book_reported = IF BeginsWithTradingLiteral(book_instrument[1].trading_portfolio)
                        THEN "trading" ELSE "banking"

\* An instrument without an explicit book whose portfolio is "TRADING_FX",
\* reported TRADING.
C26_Witness ==
    /\ book_reported = "trading"
    /\ book_instrument[1].book = None
    /\ book_instrument[1].trading_portfolio = Some(TradingFx)

\* An instrument booked BANKING explicitly whose portfolio is "TRADING_FX".
C26_ExplicitWitness ==
    /\ book_reported = "banking"
    /\ book_instrument[1].book = Some("banking")
    /\ book_instrument[1].trading_portfolio = Some(TradingFx)

---------------------------------------------------------------------------
(* InstrumentFactory: the type of a balance-sheet row *)

AccountPatterns ==
    {<<"4", "0", "8">>, <<"4", "0", "8", "1", "7">>, <<"4", "5", "5">>}

BalanceAccounts ==
    {<<"4", "0", "8", "1", "7">>, <<"4", "5", "5", "0", "2">>,
     <<"3", "0", "1", "0", "2">>}

\* mapping_config['balance_account_patterns']: a dict is the list of its
\* items in insertion order, with distinct keys.
PatternConfigs ==
    {config \in UNION {[1 .. n -> [pattern : AccountPatterns,
                                   inst_type : {"deposit", "loan"}]] :
                          n \in 0 .. MaxPatterns} :
        \A i, j \in DOMAIN config :
            i # j => config[i].pattern # config[j].pattern}

NoType == "none"

TypeParked ==
    /\ account_to_type = <<>>
    /\ balance_row = <<>>
    /\ determined_type = NoType

\* InstrumentFactory.__init__, and a row of the balance sheet: the keys
\* balance_account and instrument_type may be missing.
TypeInit ==
    /\ account_to_type \in PatternConfigs
    /\ \E account \in {None} \cup {Some(a) : a \in BalanceAccounts},
          explicit \in {None, Some("deposit"), Some("loan"), Some("bond")} :
          balance_row = <<[balance_account |-> account,
                           instrument_type |-> explicit]>>
    /\ determined_type = NoType

\* The positions of the patterns the account of the row starts with;
\* balance_row.get('balance_account', '') is the empty string for a row
\* without the key.
MatchingPatterns(config, row) ==
    {i \in DOMAIN config :
        startswith(IF row.balance_account = None THEN <<>>
                   ELSE row.balance_account[1],
                   config[i].pattern)}

\* InstrumentFactory._determine_instrument_type
_determine_instrument_type(config, row) ==
    IF MatchingPatterns(config, row) # {}
    THEN config[Least(MatchingPatterns(config, row))].inst_type
    ELSE IF row.instrument_type # None THEN row.instrument_type[1]
    ELSE "other"

DetermineInstrumentType ==
    /\ determined_type = NoType
    /\ determined_type' = _determine_instrument_type(account_to_type, balance_row[1])
    /\ UNCHANGED <<account_to_type, balance_row>>

TypeNext == DetermineInstrumentType

---------------------------------------------------------------------------
(* Claims about the type of a row *)

\* The type of the first configured prefix of the account of the row.
FirstPrefixType ==
    account_to_type[
        CHOOSE i \in MatchingPatterns(account_to_type, balance_row[1]) :
            \A j \in MatchingPatterns(account_to_type, balance_row[1]) : i <= j
    ].inst_type

\* C27: when a row supplies an explicit instrument_type, that type is used
\* even if a configured prefix also matches the row; when it does not, the
\* first matching prefix decides; a row with neither is classified OTHER.
C27_ExplicitTypeWins ==
    determined_type # NoType =>
        determined_type =
            IF balance_row[1].instrument_type # None
            THEN balance_row[1].instrument_type[1]
            ELSE IF MatchingPatterns(account_to_type, balance_row[1]) # {}
            THEN FirstPrefixType
            ELSE "other"

\* The type is the claimed one for every row that does not have both an
\* explicit type and a matching prefix.
C27_TypeWithoutConflict ==
    (/\ determined_type # NoType
     /\ \/ balance_row[1].instrument_type = None
        \/ MatchingPatterns(account_to_type, balance_row[1]) = {}) =>
        determined_type =
            IF balance_row[1].instrument_type # None
            THEN balance_row[1].instrument_type[1]
            ELSE IF MatchingPatterns(account_to_type, balance_row[1]) # {}
            THEN FirstPrefixType
            ELSE "other"

\* A row with the explicit type loan on an account that a deposit prefix
\* matches, classified deposit.
C27_Witness ==
    /\ determined_type = "deposit"
    /\ balance_row[1].instrument_type = Some("loan")
    /\ MatchingPatterns(account_to_type, balance_row[1]) # {}

\* A row without an explicit type that two prefixes match, the first of
\* them deciding; and no conflict.
C27_PrefixWitness ==
    /\ determined_type = "loan"
    /\ balance_row[1].instrument_type = None
    /\ Cardinality(MatchingPatterns(account_to_type, balance_row[1])) = 2
    /\ account_to_type[2].inst_type = "deposit"

---------------------------------------------------------------------------
(* BehavioralAssumptionsManager with its dicts held as objects: a dict of
   assumptions holds stable_portion and, under runoff_rates, a reference to
   a dict of rates *)

RuleRates == [overnight |-> 5, b2_7d |-> 10]

CounterpartyRates == [overnight |-> 20, b2_7d |-> 30]

DefaultRates == [overnight |-> 10, b2_7d |-> 15]

\* The records the resolutions are asked for: deposits of the counterparty
\* with an assumption of its own, of retail and of corporate customers.
SharedRecords ==
    [counterparty_name : {None, Some("VIP")},
     counterparty_type : {"retail", "corporate"}]

SharedParked ==
    /\ assumption_dicts = <<>>
    /\ rate_dicts = <<>>
    /\ stored_rule = 0
    /\ stored_counterparty = <<>>
    /\ returned_maps = <<>>
    /\ edits = 0
    /\ last_step = "parked"

\* add_rule with a rule for retail customers and add_counterparty_assumption
\* for "VIP"; either may come with or without runoff_rates.
SharedInit ==
    /\ rate_dicts = <<RuleRates, CounterpartyRates>>
    /\ \E rule_rates \in {None, Some(1)} :
          assumption_dicts = <<[stable_portion |-> 9, runoff_rates |-> rule_rates]>>
    /\ stored_rule = 1
    /\ \E counterparty_rates \in {None, Some(2)} :
          stored_counterparty =
              <<[stable_portion |-> 7, runoff_rates |-> counterparty_rates]>>
    /\ returned_maps = <<>>
    /\ edits = 0
    /\ last_step = "constructed"

\* dict.copy(): a new dict with the same values, references included.
dict_copy(dicts, a) == Append(dicts, dicts[a])

\* _counterparty_assumption_to_dict: a new dict whose runoff_rates is the
\* record's own dict of rates.
counterparty_dict(dicts, cp) ==
    Append(dicts, [stable_portion |-> cp.stable_portion,
                   runoff_rates |-> cp.runoff_rates])

\* get_assumptions_for_instrument: the counterparty's assumption, else a
\* copy of the assumptions of the rule that matches, else the defaults,
\* which are new dicts at both levels.
GetAssumptions(data) ==
    /\ Len(returned_maps) < MaxReturned
    /\ IF data.counterparty_name = Some("VIP")
       THEN /\ assumption_dicts' =
                  counterparty_dict(assumption_dicts, stored_counterparty[1])
            /\ UNCHANGED rate_dicts
       ELSE IF data.counterparty_type = "retail"
       THEN /\ assumption_dicts' = dict_copy(assumption_dicts, stored_rule)
            /\ UNCHANGED rate_dicts
       ELSE /\ rate_dicts' = Append(rate_dicts, DefaultRates)
            /\ assumption_dicts' =
                  Append(assumption_dicts,
                         [stable_portion |-> 4,
                          runoff_rates |-> Some(Len(rate_dicts) + 1)])
    /\ returned_maps' = Append(returned_maps, Len(assumption_dicts) + 1)
    /\ last_step' = "resolved"
    /\ UNCHANGED <<stored_rule, stored_counterparty, edits>>

\* The caller: result['stable_portion'] = value
SetTopLevel(r, value) ==
    /\ edits < MaxEdits
    /\ r \in DOMAIN returned_maps
    /\ assumption_dicts' =
          [assumption_dicts EXCEPT ![returned_maps[r]].stable_portion = value]
    /\ edits' = edits + 1
    /\ last_step' = "top"
    /\ UNCHANGED <<rate_dicts, stored_rule, stored_counterparty, returned_maps>>

\* The caller: result['runoff_rates'][bucket] = value
SetNested(r, bucket, value) ==
    /\ edits < MaxEdits
    /\ r \in DOMAIN returned_maps
    /\ assumption_dicts[returned_maps[r]].runoff_rates # None
    /\ rate_dicts' =
          [rate_dicts EXCEPT
              ![assumption_dicts[returned_maps[r]].runoff_rates[1]][bucket] = value]
    /\ edits' = edits + 1
    /\ last_step' = "nested"
    /\ UNCHANGED <<assumption_dicts, stored_rule, stored_counterparty,
                   returned_maps>>

SharedNext ==
    \/ \E data \in SharedRecords : GetAssumptions(data)
    \/ \E r \in 1 .. MaxReturned, value \in {0, 100} : SetTopLevel(r, value)
    \/ \E r \in 1 .. MaxReturned, bucket \in {"overnight", "b2_7d"},
          value \in {0, 100} : SetNested(r, bucket, value)

---------------------------------------------------------------------------
(* Claims about the maps a resolution returns *)

\* A dict of assumptions with the dict of rates it refers to.
Contents(d) ==
    [stable_portion |-> d.stable_portion,
     runoff_rates |-> IF d.runoff_rates = None THEN None
                      ELSE Some(rate_dicts[d.runoff_rates[1]])]

\* The stored rule and counterparty record, and what a resolution returns
\* for each record.
StoredContents ==
    [rule |-> Contents(assumption_dicts[stored_rule]),
     counterparty |-> Contents(stored_counterparty[1])]

ResolutionContents ==
    [data \in SharedRecords |->
        IF data.counterparty_name = Some("VIP")
        THEN Contents(stored_counterparty[1])
        ELSE IF data.counterparty_type = "retail"
        THEN Contents(assumption_dicts[stored_rule])
        ELSE [stable_portion |-> 4, runoff_rates |-> Some(DefaultRates)]]

\* C28: modifying a map returned by get_assumptions_for_instrument, at any
\* nesting depth, never changes what later resolutions return and never
\* changes the stored rules or counterparty records.
C28_ReturnedMapsIsolated ==
    [][last_step' \in {"top", "nested"} =>
          /\ StoredContents' = StoredContents
          /\ ResolutionContents' = ResolutionContents]_vars

\* Modifying the top level of a returned map changes neither.
C28_TopLevelIsolated ==
    [][last_step' = "top" =>
          /\ StoredContents' = StoredContents
          /\ ResolutionContents' = ResolutionContents]_vars

\* A rate written into the runoff_rates of a returned map is in the stored
\* rule.
C28_Witness ==
    /\ last_step = "nested"
    /\ assumption_dicts[stored_rule].runoff_rates # None
    /\ rate_dicts[assumption_dicts[stored_rule].runoff_rates[1]] # RuleRates

\* A stable_portion written into a map returned for the rule is not in the
\* stored rule.
C28_TopWitness ==
    /\ last_step = "top"
    /\ \E r \in DOMAIN returned_maps :
          /\ assumption_dicts[returned_maps[r]].runoff_rates
                = assumption_dicts[stored_rule].runoff_rates
          /\ assumption_dicts[returned_maps[r]].stable_portion = 100
          /\ assumption_dicts[stored_rule].stable_portion = 9

---------------------------------------------------------------------------
(* Claims about the cumulative gaps of a scenario result *)

\* The sum of the liquidity-gap entries of a currency over a set of buckets.
LiquidityGapSum(gaps, ccy, buckets) ==
    SumOverKeys(gaps, {key \in DOMAIN gaps : key[1] = ccy /\ key[2] \in buckets})

LiquidityBucketsOf(gaps) == {key[2] : key \in DOMAIN gaps}

\* C29: for each currency of a scenario result, the last cumulative gap is
\* the sum of all liquidity-gap entries of the currency: every cash flow
\* that the bucket mapping of the instruments places into liquidity_gaps is
\* counted in cumulative_gaps.
C29_CumulativeCountsEveryGap ==
    (scenario_results # <<>> /\ LastResult.status = "returned") =>
        \A ccy \in {key[1] : key \in DOMAIN LastResult.aggregate.liquidity_gaps} :
            /\ ccy \in DOMAIN LastResult.aggregate.cumulative_gaps
            /\ LastResult.aggregate.cumulative_gaps[ccy][Len(bucket_order)]
                  = LiquidityGapSum(LastResult.aggregate.liquidity_gaps, ccy,
                                    LiquidityBucketsOf(
                                        LastResult.aggregate.liquidity_gaps))

\* The last cumulative gap is the sum of the entries whose bucket is in
\* bucket_order.
C29_CumulativeCountsOrderedBuckets ==
    (scenario_results # <<>> /\ LastResult.status = "returned") =>
        \A ccy \in {key[1] : key \in DOMAIN LastResult.aggregate.liquidity_gaps} :
            /\ ccy \in DOMAIN LastResult.aggregate.cumulative_gaps
            /\ LastResult.aggregate.cumulative_gaps[ccy][Len(bucket_order)]
                  = LiquidityGapSum(LastResult.aggregate.liquidity_gaps, ccy,
                                    Range(bucket_order))

\* A result with a cash flow in the bucket 0-30d, which no cumulative gap
\* counts.
C29_Witness ==
    /\ scenario_results # <<>>
    /\ LastResult.status = "returned"
    /\ \E key \in DOMAIN LastResult.aggregate.liquidity_gaps :
          /\ key[2] = "0-30d"
          /\ LastResult.aggregate.liquidity_gaps[key] # 0
          /\ \A k \in DOMAIN bucket_order :
                LastResult.aggregate.cumulative_gaps[key[1]][k] = 0

---------------------------------------------------------------------------
(* Claims about the shock of the sensitivity in calculate_dynamic_irr *)

\* The shock map of the call gives two currencies different shocks.
DifferentShocks ==
    \E j, k \in DOMAIN dyn_rate_shocks :
        dyn_rate_shocks[j].shock # dyn_rate_shocks[k].shock

\* The sensitivity of every currency that has a shock was computed with the
\* shock of that currency.
OwnShock(sensitivity, shocks) ==
    \A ccy \in DOMAIN sensitivity \cap DOMAIN ShocksDict(shocks) :
        sensitivity[ccy].rate_shock_bps = ShocksDict(shocks)[ccy]

\* What calculate_dynamic_irr computes after the book filter, from the
\* arguments of the call.
StepsOfCall ==
    StaticStep(dyn_elasticity_params,
               IF book_filter # None
               THEN InBook(dyn_instruments, book_filter[1])
               ELSE dyn_instruments,
               dyn_rate_shocks, 0)

\* C30: when calculate_dynamic_irr is given different shocks for different
\* currencies, it returns, and the static and the dynamic sensitivity of
\* each currency are computed with the shock of that currency, whatever the
\* order of the entries of the shock map.
C30_SensitivityByOwnShock ==
    (dyn_pc = "called" /\ DifferentShocks) =>
        /\ dynamic_irr.status = "returned"
        /\ OwnShock(dynamic_irr.static_sensitivity, dyn_rate_shocks)
        /\ OwnShock(dynamic_irr.dynamic_sensitivity, dyn_rate_shocks)

\* The steps of calculate_dynamic_irr give every currency the first shock
\* of the map.
C30_FirstShockForEveryCurrency ==
    dyn_pc = "called" =>
        LET result == StepsOfCall
        IN result.status = "returned" =>
              \A ccy \in DOMAIN result.static_sensitivity :
                  /\ result.static_sensitivity[ccy].rate_shock_bps
                        = FirstShock(dyn_rate_shocks)
                  /\ result.dynamic_sensitivity[ccy].rate_shock_bps
                        = FirstShock(dyn_rate_shocks)

\* A call with different shocks that does not return, and whose steps give
\* a currency the shock of another currency.
C30_Witness ==
    /\ dyn_pc = "called"
    /\ DifferentShocks
    /\ dynamic_irr.status = "TypeError"
    /\ LET result == StepsOfCall
       IN /\ result.status = "returned"
          /\ ~OwnShock(result.static_sensitivity, dyn_rate_shocks)
          /\ ~OwnShock(result.dynamic_sensitivity, dyn_rate_shocks)

---------------------------------------------------------------------------
(* The specifications: one component runs, the others stay parked *)

FactorParked ==
    /\ base_date = 0
    /\ comparison_date = 1
    /\ base_instruments = <<>>
    /\ comparison_instruments = <<>>
    /\ metric_calculator = [shape |-> "sum", kind |-> "float"]
    /\ analysis_results = NoResults
    /\ fa_pc = "constructed"

AggParked ==
    /\ contributions_A = <<>>
    /\ contributions_B = <<>>
    /\ aggregation_date = 0
    /\ aggregates = [call \in AggregateCalls |-> NotAggregated]

InitFactor ==
    /\ FactorInit
    /\ AggParked
    /\ ElastParked
    /\ DynParked
    /\ ScenParked
    /\ ResolverParked
    /\ ContribParked
    /\ BucketParked
    /\ GapParked
    /\ HorizonParked
    /\ ResponseParked
    /\ SheetParked
    /\ AgingParked
    /\ ClassifyParked
    /\ BookParked
    /\ TypeParked
    /\ SharedParked

NextFactor ==
    /\ FactorNext
    /\ UNCHANGED <<aggVars, elastVars, dynVars, scenVars, resolverVars, contribVars, bucketVars, gapVars, horizonVars, responseVars, sheetVars, agingVars, classifyVars, bookVars, typeVars, sharedVars>>

SpecFactor == InitFactor /\ [][NextFactor]_vars

InitAgg ==
    /\ AggInit
    /\ FactorParked
    /\ ElastParked
    /\ DynParked
    /\ ScenParked
    /\ ResolverParked
    /\ ContribParked
    /\ BucketParked
    /\ GapParked
    /\ HorizonParked
    /\ ResponseParked
    /\ SheetParked
    /\ AgingParked
    /\ ClassifyParked
    /\ BookParked
    /\ TypeParked
    /\ SharedParked

NextAgg ==
    /\ AggNext
    /\ UNCHANGED <<factorVars, elastVars, dynVars, scenVars, resolverVars, contribVars, bucketVars, gapVars, horizonVars, responseVars, sheetVars, agingVars, classifyVars, bookVars, typeVars, sharedVars>>

SpecAgg == InitAgg /\ [][NextAgg]_vars

InitElast ==
    /\ ElastInit
    /\ FactorParked
    /\ AggParked
    /\ DynParked
    /\ ScenParked
    /\ ResolverParked
    /\ ContribParked
    /\ BucketParked
    /\ GapParked
    /\ HorizonParked
    /\ ResponseParked
    /\ SheetParked
    /\ AgingParked
    /\ ClassifyParked
    /\ BookParked
    /\ TypeParked
    /\ SharedParked

NextElast ==
    /\ ElastNext
    /\ UNCHANGED <<factorVars, aggVars, dynVars, scenVars, resolverVars, contribVars, bucketVars, gapVars, horizonVars, responseVars, sheetVars, agingVars, classifyVars, bookVars, typeVars, sharedVars>>

SpecElast == InitElast /\ [][NextElast]_vars

InitDyn ==
    /\ DynInit
    /\ FactorParked
    /\ AggParked
    /\ ElastParked
    /\ ScenParked
    /\ ResolverParked
    /\ ContribParked
    /\ BucketParked
    /\ GapParked
    /\ HorizonParked
    /\ ResponseParked
    /\ SheetParked
    /\ AgingParked
    /\ ClassifyParked
    /\ BookParked
    /\ TypeParked
    /\ SharedParked

NextDyn ==
    /\ DynNext
    /\ UNCHANGED <<factorVars, aggVars, elastVars, scenVars, resolverVars, contribVars, bucketVars, gapVars, horizonVars, responseVars, sheetVars, agingVars, classifyVars, bookVars, typeVars, sharedVars>>

SpecDyn == InitDyn /\ [][NextDyn]_vars

InitScen ==
    /\ ScenInit
    /\ FactorParked
    /\ AggParked
    /\ ElastParked
    /\ DynParked
    /\ ResolverParked
    /\ ContribParked
    /\ BucketParked
    /\ GapParked
    /\ HorizonParked
    /\ ResponseParked
    /\ SheetParked
    /\ AgingParked
    /\ ClassifyParked
    /\ BookParked
    /\ TypeParked
    /\ SharedParked

NextScen ==
    /\ ScenNext
    /\ UNCHANGED <<factorVars, aggVars, elastVars, dynVars, resolverVars, contribVars, bucketVars, gapVars, horizonVars, responseVars, sheetVars, agingVars, classifyVars, bookVars, typeVars, sharedVars>>

SpecScen == InitScen /\ [][NextScen]_vars

InitResolver ==
    /\ ResolverInit
    /\ FactorParked
    /\ AggParked
    /\ ElastParked
    /\ DynParked
    /\ ScenParked
    /\ ContribParked
    /\ BucketParked
    /\ GapParked
    /\ HorizonParked
    /\ ResponseParked
    /\ SheetParked
    /\ AgingParked
    /\ ClassifyParked
    /\ BookParked
    /\ TypeParked
    /\ SharedParked

NextResolver ==
    /\ ResolverNext
    /\ UNCHANGED <<factorVars, aggVars, elastVars, dynVars, scenVars, contribVars, bucketVars, gapVars, horizonVars, responseVars, sheetVars, agingVars, classifyVars, bookVars, typeVars, sharedVars>>

SpecResolver == InitResolver /\ [][NextResolver]_vars

InitContrib ==
    /\ ContribInit
    /\ FactorParked
    /\ AggParked
    /\ ElastParked
    /\ DynParked
    /\ ScenParked
    /\ ResolverParked
    /\ BucketParked
    /\ GapParked
    /\ HorizonParked
    /\ ResponseParked
    /\ SheetParked
    /\ AgingParked
    /\ ClassifyParked
    /\ BookParked
    /\ TypeParked
    /\ SharedParked

NextContrib ==
    /\ ContribNext
    /\ UNCHANGED <<factorVars, aggVars, elastVars, dynVars, scenVars, resolverVars, bucketVars, gapVars, horizonVars, responseVars, sheetVars, agingVars, classifyVars, bookVars, typeVars, sharedVars>>

SpecContrib == InitContrib /\ [][NextContrib]_vars

InitBucket ==
    /\ BucketInit
    /\ FactorParked
    /\ AggParked
    /\ ElastParked
    /\ DynParked
    /\ ScenParked
    /\ ResolverParked
    /\ ContribParked
    /\ GapParked
    /\ HorizonParked
    /\ ResponseParked
    /\ SheetParked
    /\ AgingParked
    /\ ClassifyParked
    /\ BookParked
    /\ TypeParked
    /\ SharedParked

NextBucket ==
    /\ BucketNext
    /\ UNCHANGED <<factorVars, aggVars, elastVars, dynVars, scenVars, resolverVars, contribVars, gapVars, horizonVars, responseVars, sheetVars, agingVars, classifyVars, bookVars, typeVars, sharedVars>>

SpecBucket == InitBucket /\ [][NextBucket]_vars

InitGap ==
    /\ GapInit
    /\ FactorParked
    /\ AggParked
    /\ ElastParked
    /\ DynParked
    /\ ScenParked
    /\ ResolverParked
    /\ ContribParked
    /\ BucketParked
    /\ HorizonParked
    /\ ResponseParked
    /\ SheetParked
    /\ AgingParked
    /\ ClassifyParked
    /\ BookParked
    /\ TypeParked
    /\ SharedParked

NextGap ==
    /\ GapNext
    /\ UNCHANGED <<factorVars, aggVars, elastVars, dynVars, scenVars, resolverVars, contribVars, bucketVars, horizonVars, responseVars, sheetVars, agingVars, classifyVars, bookVars, typeVars, sharedVars>>

SpecGap == InitGap /\ [][NextGap]_vars

InitHorizon ==
    /\ HorizonInit
    /\ FactorParked
    /\ AggParked
    /\ ElastParked
    /\ DynParked
    /\ ScenParked
    /\ ResolverParked
    /\ ContribParked
    /\ BucketParked
    /\ GapParked
    /\ ResponseParked
    /\ SheetParked
    /\ AgingParked
    /\ ClassifyParked
    /\ BookParked
    /\ TypeParked
    /\ SharedParked

NextHorizon ==
    /\ HorizonNext
    /\ UNCHANGED <<factorVars, aggVars, elastVars, dynVars, scenVars, resolverVars, contribVars, bucketVars, gapVars, responseVars, sheetVars, agingVars, classifyVars, bookVars, typeVars, sharedVars>>

SpecHorizon == InitHorizon /\ [][NextHorizon]_vars

InitResponse ==
    /\ ResponseInit
    /\ FactorParked
    /\ AggParked
    /\ ElastParked
    /\ DynParked
    /\ ScenParked
    /\ ResolverParked
    /\ ContribParked
    /\ BucketParked
    /\ GapParked
    /\ HorizonParked
    /\ SheetParked
    /\ AgingParked
    /\ ClassifyParked
    /\ BookParked
    /\ TypeParked
    /\ SharedParked

NextResponse ==
    /\ ResponseNext
    /\ UNCHANGED <<factorVars, aggVars, elastVars, dynVars, scenVars, resolverVars, contribVars, bucketVars, gapVars, horizonVars, sheetVars, agingVars, classifyVars, bookVars, typeVars, sharedVars>>

SpecResponse == InitResponse /\ [][NextResponse]_vars

InitSheet ==
    /\ SheetInit
    /\ FactorParked
    /\ AggParked
    /\ ElastParked
    /\ DynParked
    /\ ScenParked
    /\ ResolverParked
    /\ ContribParked
    /\ BucketParked
    /\ GapParked
    /\ HorizonParked
    /\ ResponseParked
    /\ AgingParked
    /\ ClassifyParked
    /\ BookParked
    /\ TypeParked
    /\ SharedParked

NextSheet ==
    /\ SheetNext
    /\ UNCHANGED <<factorVars, aggVars, elastVars, dynVars, scenVars, resolverVars, contribVars, bucketVars, gapVars, horizonVars, responseVars, agingVars, classifyVars, bookVars, typeVars, sharedVars>>

SpecSheet == InitSheet /\ [][NextSheet]_vars

InitAging ==
    /\ AgingInit
    /\ FactorParked
    /\ AggParked
    /\ ElastParked
    /\ DynParked
    /\ ScenParked
    /\ ResolverParked
    /\ ContribParked
    /\ BucketParked
    /\ GapParked
    /\ HorizonParked
    /\ ResponseParked
    /\ SheetParked
    /\ ClassifyParked
    /\ BookParked
    /\ TypeParked
    /\ SharedParked

NextAging ==
    /\ AgingNext
    /\ UNCHANGED <<factorVars, aggVars, elastVars, dynVars, scenVars, resolverVars, contribVars, bucketVars, gapVars, horizonVars, responseVars, sheetVars, classifyVars, bookVars, typeVars, sharedVars>>

SpecAging == InitAging /\ [][NextAging]_vars

InitClassify ==
    /\ ClassifyInit
    /\ FactorParked
    /\ AggParked
    /\ ElastParked
    /\ DynParked
    /\ ScenParked
    /\ ResolverParked
    /\ ContribParked
    /\ BucketParked
    /\ GapParked
    /\ HorizonParked
    /\ ResponseParked
    /\ SheetParked
    /\ AgingParked
    /\ BookParked
    /\ TypeParked
    /\ SharedParked

NextClassify ==
    /\ ClassifyNext
    /\ UNCHANGED <<factorVars, aggVars, elastVars, dynVars, scenVars, resolverVars, contribVars, bucketVars, gapVars, horizonVars, responseVars, sheetVars, agingVars, bookVars, typeVars, sharedVars>>

SpecClassify == InitClassify /\ [][NextClassify]_vars

InitBook ==
    /\ BookInit
    /\ FactorParked
    /\ AggParked
    /\ ElastParked
    /\ DynParked
    /\ ScenParked
    /\ ResolverParked
    /\ ContribParked
    /\ BucketParked
    /\ GapParked
    /\ HorizonParked
    /\ ResponseParked
    /\ SheetParked
    /\ AgingParked
    /\ ClassifyParked
    /\ TypeParked
    /\ SharedParked

NextBook ==
    /\ BookNext
    /\ UNCHANGED <<factorVars, aggVars, elastVars, dynVars, scenVars, resolverVars, contribVars, bucketVars, gapVars, horizonVars, responseVars, sheetVars, agingVars, classifyVars, typeVars, sharedVars>>

SpecBook == InitBook /\ [][NextBook]_vars

InitType ==
    /\ TypeInit
    /\ FactorParked
    /\ AggParked
    /\ ElastParked
    /\ DynParked
    /\ ScenParked
    /\ ResolverParked
    /\ ContribParked
    /\ BucketParked
    /\ GapParked
    /\ HorizonParked
    /\ ResponseParked
    /\ SheetParked
    /\ AgingParked
    /\ ClassifyParked
    /\ BookParked
    /\ SharedParked

NextType ==
    /\ TypeNext
    /\ UNCHANGED <<factorVars, aggVars, elastVars, dynVars, scenVars, resolverVars, contribVars, bucketVars, gapVars, horizonVars, responseVars, sheetVars, agingVars, classifyVars, bookVars, sharedVars>>

SpecType == InitType /\ [][NextType]_vars

InitShared ==
    /\ SharedInit
    /\ FactorParked
    /\ AggParked
    /\ ElastParked
    /\ DynParked
    /\ ScenParked
    /\ ResolverParked
    /\ ContribParked
    /\ BucketParked
    /\ GapParked
    /\ HorizonParked
    /\ ResponseParked
    /\ SheetParked
    /\ AgingParked
    /\ ClassifyParked
    /\ BookParked
    /\ TypeParked

NextShared ==
    /\ SharedNext
    /\ UNCHANGED <<factorVars, aggVars, elastVars, dynVars, scenVars, resolverVars, contribVars, bucketVars, gapVars, horizonVars, responseVars, sheetVars, agingVars, classifyVars, bookVars, typeVars>>

SpecShared == InitShared /\ [][NextShared]_vars

===========================================================================
